---- MODULE Spec2Model ----
(***************************************************************************)
(* Review orchestration core of the merge-request review service.          *)
(*                                                                         *)
(* The model follows one orchestration key "<repo_id>-<mr_number>": the    *)
(* webhook ingress, the TriggerReview RPC, the PRReview.Run virtual-object *)
(* handler with its DiffFetcher / Reviewer / PostReview calls, and the     *)
(* durable runtime that queues, journals, replays, retries and cancels     *)
(* invocations.  Every query of the program filters on (repo_id,           *)
(* mr_number), so rows of other keys never interact with this one.         *)
(*                                                                         *)
(* Row ids and invocation ids are positions in the sequences below, so     *)
(* "ORDER BY created_at" is the order of the positions.                    *)
(***************************************************************************)
EXTENDS Integers, Sequences, FiniteSets, TLC

\* ---------------------------------------------------------------- constants
\* SQL NULL, Go "" and Go nil for ids and hashes (real ids start at 1).
NULL == 0
\* provider_comment_id sentinel "skipped".
Skipped == -1
\* difffetcher.maxChangedLines
maxChangedLines == 5000
\* 3*60*1000 ms in PRReview.Run, in minutes (the clock below counts minutes).
DebounceMinutes == 3

\* ------------------------------------------------------------------- bounds
MaxTime == 4
MaxComments == 2
MaxHead == 2
MaxWebhooks == 2
MaxTriggers == 1
MaxEdits == 1
MaxCrashes == 1
PostFaults == 2

Heads == 1..MaxHead
LineCounts == {maxChangedLines, maxChangedLines + 1}
ProviderErrors ==
  {"NotFound", "Unauthorized", "Forbidden", "RateLimited", "InvalidInput", "Transient"}

VARIABLES
  now,                  \* time.Now(), in minutes
  mr,                   \* the merge request at the provider: head, draft, lines
  review_runs,          \* table review_runs of this (repo_id, mr_number)
  review_comments,      \* table review_comments
  invocations,          \* PRReview/Run invocations known to the runtime
  last_started_at,      \* virtual-object state "last_started_at" of the key
  provider_notes,       \* notes accepted by the provider (PostComment)
  provider_discussions, \* inline discussions accepted by the provider
  reviewer_calls,       \* calls received by Reviewer/RunReview
  runtime_log,          \* submit and cancel requests received by the runtime
  wh,                   \* the webhook handler: position, ids, last status
  request,              \* the webhook request under delivery (ServeHTTP)
  listing,              \* a ListRepos call of the GitLab client
  reply,                \* the response of a GetReviewRun call
  tr,                   \* the TriggerReview request being served
  budget                \* remaining environment events

vars ==
  <<now, mr, review_runs, review_comments, invocations, last_started_at,
    provider_notes, provider_discussions, reviewer_calls, runtime_log, wh, tr,
    request, listing, reply, budget>>

provVars == <<provider_notes, provider_discussions, reviewer_calls>>
handlerVars == <<wh, tr, request, listing, reply>>

\* ----------------------------------------------------------------- helpers
Max(S) == CHOOSE x \in S : \A y \in S : y <= x

RECURSIVE SetToSeq(_)
\* the members of a set of positions in ascending order (ORDER BY created_at)
SetToSeq(S) ==
  IF S = {} THEN <<>>
  ELSE LET m == CHOOSE x \in S : \A y \in S : x <= y
       IN <<m>> \o SetToSeq(S \ {m})

Spend(f) == [budget EXCEPT ![f] = @ - 1]

\* ------------------------------------------------------------ rows and SQL
\* a row of review_runs; creator records the orchestrator invocation that
\* inserted it (NULL for the api-server's handlers)
NewRun(status, inv, creator) ==
  [status |-> status, diff_hash |-> NULL, restate_invocation_id |-> inv,
   summary |-> "", creator |-> creator]

\* INSERT INTO review_runs ... 'pending'
CreateReviewRun(runs, creator) == Append(runs, NewRun("pending", NULL, creator))

\* INSERT INTO review_runs ... 'pending', restate_invocation_id
CreateReviewRunWithInvocation(runs, inv) ==
  Append(runs, NewRun("pending", inv, NULL))

\* INSERT INTO review_runs ... 'draft'
CreateDraftReviewRun(runs) == Append(runs, NewRun("draft", NULL, NULL))

UpdateReviewRunStatus(runs, runID, status) ==
  [runs EXCEPT ![runID].status = status]

UpdateReviewRunDiffHash(runs, runID, h) ==
  [runs EXCEPT ![runID].diff_hash = h]

\* variant of UpdateReviewRunInvocationID that writes to the newest row
UpdateNewestRunInvocationID(runs, runID, inv) ==
  [runs EXCEPT ![Len(runs)].restate_invocation_id = inv]

UpdateReviewRunSummary(runs, runID, s) ==
  [runs EXCEPT ![runID].summary = s]

UpdateReviewRunInvocationID(runs, runID, inv) ==
  [runs EXCEPT ![runID].restate_invocation_id = inv]

\* the most recent draft row becomes pending; no-op without a draft row
TransitionDraftToReview(runs) ==
  LET D == {k \in 1..Len(runs) : runs[k].status = "draft"}
  IN IF D = {} THEN runs ELSE [runs EXCEPT ![Max(D)].status = "pending"]

\* restate_invocation_id of the most recent pending/running row (NULL when
\* there is no such row or when that row's column is NULL)
GetActiveInvocationID(runs) ==
  LET A == {k \in 1..Len(runs) : runs[k].status \in {"pending", "running"}}
  IN IF A = {} THEN NULL ELSE runs[Max(A)].restate_invocation_id

\* diff_hash of the most recent completed row with a diff_hash (NULL: none)
GetLatestReviewDiffHash(runs) ==
  LET C == {k \in 1..Len(runs) :
              runs[k].status = "completed" /\ runs[k].diff_hash # NULL}
  IN IF C = {} THEN NULL ELSE runs[Max(C)].diff_hash

\* one INSERT per reviewer comment, in the reviewer's order
InsertNoComments(comments, runID, from, to) == comments

RECURSIVE InsertReviewComments(_, _, _, _)
InsertReviewComments(comments, runID, from, to) ==
  IF from > to THEN comments
  ELSE InsertReviewComments(
         Append(comments, [review_run_id |-> runID, comment |-> from,
                           provider_comment_id |-> NULL]),
         runID, from + 1, to)

\* variant of GetUnpostedComments without "AND posted = false"
GetUnpostedCommentsAnyPosted(comments, runID) ==
  SetToSeq({c \in 1..Len(comments) : comments[c].review_run_id = runID})

\* ids of the run's rows with posted = false, ordered by created_at
\* the same rows with ORDER BY created_at DESC
Reverse(s) == [k \in 1..Len(s) |-> s[Len(s) + 1 - k]]

GetUnpostedCommentsNewestFirst(comments, runID) ==
  Reverse(SetToSeq({c \in 1..Len(comments) :
                      comments[c].review_run_id = runID
                      /\ comments[c].provider_comment_id = NULL}))

GetUnpostedComments(comments, runID) ==
  SetToSeq({c \in 1..Len(comments) :
              comments[c].review_run_id = runID
              /\ comments[c].provider_comment_id = NULL})

\* variant of MarkCommentPosted with "WHERE review_run_id = ..." in place of
\* "WHERE id = $2"
MarkCommentPostedWholeRun(comments, c, id) ==
  [k \in 1..Len(comments) |->
     IF comments[k].review_run_id = comments[c].review_run_id
     THEN [comments[k] EXCEPT !.provider_comment_id = id]
     ELSE comments[k]]

\* variant of MarkCommentPosted whose UPDATE matches no row
MarkCommentPostedNoRow(comments, c, id) == comments

\* UPDATE review_comments SET posted = true, provider_comment_id = $1
\* WHERE id = $2
MarkCommentPosted(comments, c, id) ==
  [comments EXCEPT ![c].provider_comment_id = id]

\* ------------------------------------------------------------ pure helpers
\* classifyProviderError: TRUE when the error becomes a restate.TerminalError
classifyProviderError(e) == e \in {"NotFound", "Unauthorized", "Forbidden"}

NoFetch ==
  [st |-> "none", skip |-> FALSE, draft |-> FALSE, diff_hash |-> NULL,
   changed_lines |-> 0, too_large |-> FALSE, latest |-> NULL,
   completed |-> {}]

\* variant of FetchPRDetails without the "found && prevHash == diffHash" branch
FetchPRDetailsNoDedup(m, runs, force) ==
  [st |-> "ok", skip |-> FALSE, draft |-> m.draft, diff_hash |-> m.head,
   changed_lines |-> m.lines, too_large |-> m.lines > maxChangedLines,
   latest |-> GetLatestReviewDiffHash(runs),
   completed |-> {runs[k].diff_hash : k \in {j \in 1..Len(runs) :
                                              runs[j].status = "completed"}}]

\* variant of FetchPRDetails without "if !req.Force"
FetchPRDetailsIgnoreForce(m, runs, force) ==
  LET diffHash == m.head
      prevHash == GetLatestReviewDiffHash(runs)
      seen == {runs[k].diff_hash : k \in {j \in 1..Len(runs) :
                                         runs[j].status = "completed"}}
  IN IF prevHash # NULL /\ prevHash = diffHash
     THEN [st |-> "ok", skip |-> TRUE, draft |-> FALSE, diff_hash |-> diffHash,
           changed_lines |-> 0, too_large |-> FALSE, latest |-> prevHash,
           completed |-> seen]
     ELSE [st |-> "ok", skip |-> FALSE, draft |-> m.draft,
           diff_hash |-> diffHash, changed_lines |-> m.lines,
           too_large |-> m.lines > maxChangedLines,
           latest |-> prevHash, completed |-> seen]

\* variant of FetchPRDetails with "diff.ChangedLines >= maxChangedLines"
FetchPRDetailsAtLimit(m, runs, force) ==
  LET diffHash == m.head
      prevHash == GetLatestReviewDiffHash(runs)
      seen == {runs[k].diff_hash : k \in {j \in 1..Len(runs) :
                                         runs[j].status = "completed"}}
  IN IF ~force /\ prevHash # NULL /\ prevHash = diffHash
     THEN [st |-> "ok", skip |-> TRUE, draft |-> FALSE, diff_hash |-> diffHash,
           changed_lines |-> 0, too_large |-> FALSE, latest |-> prevHash,
           completed |-> seen]
     ELSE [st |-> "ok", skip |-> FALSE, draft |-> m.draft,
           diff_hash |-> diffHash, changed_lines |-> m.lines,
           too_large |-> m.lines >= maxChangedLines,
           latest |-> prevHash, completed |-> seen]

\* DiffFetcher.FetchPRDetails on the current MR and table; latest and
\* completed record what the table held when the call was served
FetchPRDetails(m, runs, force) ==
  LET diffHash == m.head
      prevHash == GetLatestReviewDiffHash(runs)
      seen == {runs[k].diff_hash : k \in {j \in 1..Len(runs) :
                                         runs[j].status = "completed"}}
  IN IF ~force /\ prevHash # NULL /\ prevHash = diffHash
     THEN [st |-> "ok", skip |-> TRUE, draft |-> FALSE, diff_hash |-> diffHash,
           changed_lines |-> 0, too_large |-> FALSE, latest |-> prevHash,
           completed |-> seen]
     ELSE [st |-> "ok", skip |-> FALSE, draft |-> m.draft,
           diff_hash |-> diffHash, changed_lines |-> m.lines,
           too_large |-> m.lines > maxChangedLines,
           latest |-> prevHash, completed |-> seen]

\* ------------------------------------------------------------- invocations
\* postreview.PostResponse
PostResponse(posted, summary) ==
  [comments_posted |-> posted, summary_posted |-> summary]

\* RunRequest (run_id, force; dry_run is false unless the caller sets it)
\* and the journal and position of its execution
NewInvocation(runID, force, src, live, cancelled) ==
  [run_id |-> runID, force |-> force, dry_run |-> FALSE,
   st |-> "queued", cancel |-> FALSE, outcome |-> "none",
   pc |-> "start", runID |-> NULL, terminal |-> FALSE,
   j_start |-> FALSE, j_last |-> 0, j_sleep |-> "none", j_wake |-> 0,
   j_fetch |-> NoFetch, j_review |-> [st |-> "none", n |-> 0],
   j_post |-> "none",
   post_resp |-> PostResponse(0, FALSE),
   post_run |-> NULL, post_pc |-> "idle", post_loaded |-> <<>>, post_i |-> 0,
   post_skip |-> {}, post_calls |-> {},
   src |-> src, sub_time |-> now, sub_head |-> mr.head, sub_live |-> live,
   sub_cancelled |-> cancelled]

Live(invs) == {i \in 1..Len(invs) : invs[i].st # "ended"}

Running == {i \in 1..Len(invocations) : invocations[i].st = "running"}

\* the runtime's cancel: an ended invocation answers 404, a queued one is
\* dropped from the inbox, a running one sees the cancel at its next await
CancelInvocation(invs, id) ==
  IF id \notin 1..Len(invs) \/ invs[id].st = "ended" THEN invs
  ELSE IF invs[id].st = "queued"
       THEN [invs EXCEPT ![id].st = "ended", ![id].outcome = "cancelled"]
       ELSE [invs EXCEPT ![id].cancel = TRUE]

\* ---------------------------------------------------------- webhook requests
\* a POST to /webhooks/<provider_id>: the provider row it names, the
\* X-Gitlab-Token header against the stored secret, what json.Decoder makes of
\* the body, and the payload's fields
Requests ==
  [provider : {"secret", "no_secret", "unknown"},
   token : {"match", "wrong", "missing"},
   body : {"valid", "syntax_error", "trailing_data"},
   object_kind : {"merge_request", "push"},
   action : {"open", "update", "reopen", "close"},
   repo : {"enabled", "disabled", "unknown"},
   draft : BOOLEAN,
   work_in_progress : BOOLEAN,
   changes : {"none", "to_ready"}]

\* no request is under delivery
NoRequest ==
  [provider |-> "-", token |-> "-", body |-> "-", object_kind |-> "-",
   action |-> "-", repo |-> "-", draft |-> FALSE, work_in_progress |-> FALSE,
   changes |-> "-"]

reviewableActions == {"open", "update", "reopen"}

\* changes.draft went from true to false
isDraftToReadyTransition(changes) == changes = "to_ready"

\* json.NewDecoder(r.Body).Decode(&payload): an error for a body whose first
\* JSON value does not parse; data after the first value is not read
Decode(body) == body # "syntax_error"

\* variant of the checks without the token comparison (repo.go:659-667)
RouteNoTokenCheck(req) ==
  LET isDraft == req.draft \/ req.work_in_progress
      isDraftToReady == req.action = "update"
                        /\ isDraftToReadyTransition(req.changes)
      answer(code) == [act |-> "answer", code |-> code, transition |-> FALSE]
  IN IF req.provider = "unknown" THEN answer(404)
     ELSE IF ~Decode(req.body) THEN answer(400)
     ELSE IF req.object_kind # "merge_request" THEN answer(200)
     ELSE IF req.action \notin reviewableActions THEN answer(200)
     ELSE IF req.repo = "unknown" THEN answer(200)
     ELSE IF req.repo = "disabled" THEN answer(200)
     ELSE IF isDraft /\ ~isDraftToReady
     THEN [act |-> "draft", code |-> 200, transition |-> FALSE]
     ELSE [act |-> "dispatch", code |-> 200, transition |-> isDraftToReady]

\* variant of the checks without "if !repo.ReviewEnabled" (repo.go:717-721)
RouteIgnoreReviewEnabled(req) ==
  LET isDraft == req.draft \/ req.work_in_progress
      isDraftToReady == req.action = "update"
                        /\ isDraftToReadyTransition(req.changes)
      answer(code) == [act |-> "answer", code |-> code, transition |-> FALSE]
  IN IF req.provider = "unknown" THEN answer(404)
     ELSE IF req.token = "missing" \/ req.provider = "no_secret" THEN answer(401)
     ELSE IF req.token # "match" THEN answer(401)
     ELSE IF ~Decode(req.body) THEN answer(400)
     ELSE IF req.object_kind # "merge_request" THEN answer(200)
     ELSE IF req.action \notin reviewableActions THEN answer(200)
     ELSE IF req.repo = "unknown" THEN answer(200)
     ELSE IF isDraft /\ ~isDraftToReady
     THEN [act |-> "draft", code |-> 200, transition |-> FALSE]
     ELSE [act |-> "dispatch", code |-> 200, transition |-> isDraftToReady]

\* variant of the checks with isDraft := Draft only (repo.go:724)
RouteIgnoreWorkInProgress(req) ==
  LET isDraft == req.draft
      isDraftToReady == req.action = "update"
                        /\ isDraftToReadyTransition(req.changes)
      answer(code) == [act |-> "answer", code |-> code, transition |-> FALSE]
  IN IF req.provider = "unknown" THEN answer(404)
     ELSE IF req.token = "missing" \/ req.provider = "no_secret" THEN answer(401)
     ELSE IF req.token # "match" THEN answer(401)
     ELSE IF ~Decode(req.body) THEN answer(400)
     ELSE IF req.object_kind # "merge_request" THEN answer(200)
     ELSE IF req.action \notin reviewableActions THEN answer(200)
     ELSE IF req.repo = "unknown" THEN answer(200)
     ELSE IF req.repo = "disabled" THEN answer(200)
     ELSE IF isDraft /\ ~isDraftToReady
     THEN [act |-> "draft", code |-> 200, transition |-> FALSE]
     ELSE [act |-> "dispatch", code |-> 200, transition |-> isDraftToReady]

\* the early returns of ServeHTTP in the order of the code: the status it
\* answers with, or the branch it goes on with
Route(req) ==
  LET isDraft == req.draft \/ req.work_in_progress
      isDraftToReady ==
        req.action = "update" /\ isDraftToReadyTransition(req.changes)
      answer(code) == [act |-> "answer", code |-> code, transition |-> FALSE]
  IN IF req.provider = "unknown" THEN answer(404)
     ELSE IF req.token = "missing" \/ req.provider = "no_secret"
     THEN answer(401)
     ELSE IF req.token # "match" THEN answer(401)
     ELSE IF ~Decode(req.body) THEN answer(400)
     ELSE IF req.object_kind # "merge_request" THEN answer(200)
     ELSE IF req.action \notin reviewableActions THEN answer(200)
     ELSE IF req.repo = "unknown" THEN answer(200)
     ELSE IF req.repo = "disabled" THEN answer(200)
     ELSE IF isDraft /\ ~isDraftToReady
     THEN [act |-> "draft", code |-> 200, transition |-> FALSE]
     ELSE [act |-> "dispatch", code |-> 200, transition |-> isDraftToReady]

\* ------------------------------------------------- GitLab client: ListRepos
MaxPages == 3
MaxPerPage == 2
MaxRequests == 4

PageNumbers == 1..MaxPages

\* the provider's answer to GET /projects?page=p: a failure, or the projects
\* of the page (project k of page p is <<p, k>>) and the X-Next-Page header
\* (0 stands for the empty header)
PageAnswers ==
  [fails : BOOLEAN, projects : 0..MaxPerPage, next : 0..MaxPages]

Projects(p, n) == [k \in 1..n |-> <<p, k>>]

\* no ListRepos call is made
NoListing ==
  [st |-> "none", pages |-> <<>>, nextPage |-> 0, repos |-> <<>>,
   requested |-> <<>>, result |-> <<>>]

\* variant of the loop body that keeps only the projects of the current page
KeepOnlyPage(repos, projects) == projects

\* for _, p := range projects { repos = append(repos, ...) }
AppendProjects(repos, projects) == repos \o projects

\* one iteration of "for nextPage != """: request the page, check the status,
\* decode and append, read X-Next-Page; requested is the log of page requests
ListReposPage ==
  /\ listing.st = "loop"
  /\ listing.nextPage # 0
  /\ Len(listing.requested) < MaxRequests
  /\ LET p == listing.nextPage
         a == listing.pages[p]
         asked == [listing EXCEPT !.requested = Append(@, p)]
     IN listing' =
          IF a.fails
          THEN [asked EXCEPT !.st = "error", !.result = <<>>]
          ELSE [asked EXCEPT
                  !.repos = AppendProjects(@, Projects(p, a.projects)),
                  !.nextPage = a.next]
  /\ UNCHANGED <<now, mr, review_runs, review_comments, invocations,
                 last_started_at, provVars, runtime_log, wh, tr, request,
                 reply, budget>>

\* nextPage == "": return repos, nil
ListReposReturn ==
  /\ listing.st = "loop"
  /\ listing.nextPage = 0
  /\ listing' = [listing EXCEPT !.st = "done", !.result = listing.repos]
  /\ UNCHANGED <<now, mr, review_runs, review_comments, invocations,
                 last_started_at, provVars, runtime_log, wh, tr, request,
                 reply, budget>>

\* ----------------------------------------------------------- GetReviewRun
\* the status column's values
Statuses == {"draft", "pending", "running", "completed", "failed", "skipped"}

\* handler.stringToReviewStatus: the switch and its default
stringToReviewStatus(s) ==
  CASE s = "pending" -> "REVIEW_STATUS_PENDING"
    [] s = "running" -> "REVIEW_STATUS_RUNNING"
    [] s = "completed" -> "REVIEW_STATUS_COMPLETED"
    [] s = "failed" -> "REVIEW_STATUS_FAILED"
    [] OTHER -> "REVIEW_STATUS_UNSPECIFIED"

NoReply == [code |-> "none", id |-> NULL, status |-> ""]

\* ReviewHandler.GetReviewRun: an empty id, an unknown id, or the row through
\* reviewRunToProto
GetReviewRun(id) ==
  /\ reply = NoReply
  /\ reply' =
       IF id = NULL
       THEN [NoReply EXCEPT !.code = "invalid_argument"]
       ELSE IF id \notin 1..Len(review_runs)
       THEN [NoReply EXCEPT !.code = "not_found"]
       ELSE [code |-> "ok", id |-> id,
             status |-> stringToReviewStatus(review_runs[id].status)]
  /\ UNCHANGED <<now, mr, review_runs, review_comments, invocations,
                 last_started_at, provVars, runtime_log, wh, tr, request,
                 listing, budget>>

\* -------------------------------------------------------------------- Init
Init0 ==
  /\ now = 1
  /\ mr \in [head : {1}, draft : BOOLEAN, lines : LineCounts]
  /\ review_runs = <<>>
  /\ review_comments = <<>>
  /\ invocations = <<>>
  /\ last_started_at = 0
  /\ provider_notes = <<>>
  /\ provider_discussions = <<>>
  /\ reviewer_calls = <<>>
  /\ runtime_log = <<>>
  /\ wh = [pc |-> "idle", inv |-> NULL, code |-> 0]
  /\ request = NoRequest
  /\ listing = NoListing
  /\ reply = NoReply
  /\ tr = [pc |-> "idle", run |-> NULL, inv |-> NULL]

Init ==
  /\ Init0
  /\ budget = [webhooks |-> MaxWebhooks, triggers |-> 0, edits |-> MaxEdits,
               faults |-> 0, crashes |-> 0]

\* -------------------------------------------------------------- environment
\* a push (or force-push) moves the MR head to another commit
Push(h, l) ==
  /\ budget.edits > 0
  /\ h # mr.head
  /\ mr' = [mr EXCEPT !.head = h, !.lines = l]
  /\ budget' = Spend("edits")
  /\ UNCHANGED <<now, review_runs, review_comments, invocations,
                 last_started_at, provVars, runtime_log, handlerVars>>

\* the author marks the MR draft or ready
SetDraft ==
  /\ budget.edits > 0
  /\ mr' = [mr EXCEPT !.draft = ~@]
  /\ budget' = Spend("edits")
  /\ UNCHANGED <<now, review_runs, review_comments, invocations,
                 last_started_at, provVars, runtime_log, handlerVars>>

Tick ==
  /\ now < MaxTime
  /\ now' = now + 1
  /\ UNCHANGED <<mr, review_runs, review_comments, invocations,
                 last_started_at, provVars, runtime_log, handlerVars, budget>>

\* ------------------------------------------------------------------ faults
\* a fault (a failing database statement, runtime call, provider call or
\* reviewer call) is taken from the budget
Fault(f) == f => budget.faults > 0

SpendFault(b, f) == IF f THEN [b EXCEPT !.faults = @ - 1] ELSE b

\* ---------------------------------------------------------- webhook ingress
\* WebhookHandler.ServeHTTP, draft MR that is not a draft->ready transition:
\* record a draft row, no dispatch
WebhookDraft(f) ==
  /\ wh.pc = "idle"
  /\ budget.webhooks > 0
  /\ mr.draft
  /\ Fault(f)
  /\ review_runs' = IF f THEN review_runs ELSE CreateDraftReviewRun(review_runs)
  /\ wh' = [wh EXCEPT !.code = IF f THEN 500 ELSE 200]
  /\ budget' = SpendFault(Spend("webhooks"), f)
  /\ UNCHANGED <<now, mr, review_comments, invocations, last_started_at,
                 provVars, runtime_log, tr, request, listing,
                 reply>>

\* variant of the dispatch in which a failed lookup or cancel ends the request
\* with 500, as a failed submit does
WebhookDispatchStrictCancel(isDraftToReady, fault) ==
  /\ wh.pc = "idle"
  /\ budget.webhooks > 0
  /\ ~mr.draft
  /\ Fault(fault # "none")
  /\ fault = "transition" => isDraftToReady
  /\ LET runs1 == IF isDraftToReady /\ fault # "transition"
                  THEN TransitionDraftToReview(review_runs)
                  ELSE review_runs
         activeInvocationID == IF fault = "lookup" THEN NULL
                               ELSE GetActiveInvocationID(runs1)
         invs1 == IF activeInvocationID # NULL /\ fault # "cancel"
                  THEN CancelInvocation(invocations, activeInvocationID)
                  ELSE invocations
         log1 == IF activeInvocationID # NULL
                 THEN Append(runtime_log,
                             [op |-> "cancel", id |-> activeInvocationID])
                 ELSE runtime_log
         invocationID == Len(invocations) + 1
     IN /\ fault = "cancel" => activeInvocationID # NULL
        /\ review_runs' = runs1
        /\ IF fault \in {"send", "cancel", "lookup"}
           THEN /\ invocations' = invs1
                /\ runtime_log' = log1
                /\ wh' = [wh EXCEPT !.code = 500]
           ELSE /\ invocations' =
                     Append(invs1,
                            NewInvocation(NULL, FALSE, "webhook",
                                          Live(invocations), activeInvocationID))
                /\ runtime_log' =
                     Append(log1, [op |-> "submit", id |-> invocationID])
                /\ wh' = [wh EXCEPT !.pc = "create", !.inv = invocationID]
  /\ budget' = SpendFault(Spend("webhooks"), fault # "none")
  /\ UNCHANGED <<now, mr, review_comments, last_started_at, provVars, tr,
                 request, listing,
                 reply>>

\* WebhookHandler.ServeHTTP from the draft->ready transition to SendPRReview:
\* transition the draft row, look up and cancel the active invocation, submit.
\* fault names the call of the request that fails, if any.
WebhookDispatch(isDraftToReady, fault) ==
  /\ wh.pc = "idle"
  /\ budget.webhooks > 0
  /\ ~mr.draft
  /\ Fault(fault # "none")
  /\ fault = "transition" => isDraftToReady
  /\ LET runs1 == IF isDraftToReady /\ fault # "transition"
                  THEN TransitionDraftToReview(review_runs)
                  ELSE review_runs
         activeInvocationID == IF fault = "lookup" THEN NULL
                               ELSE GetActiveInvocationID(runs1)
         invs1 == IF activeInvocationID # NULL /\ fault # "cancel"
                  THEN CancelInvocation(invocations, activeInvocationID)
                  ELSE invocations
         log1 == IF activeInvocationID # NULL
                 THEN Append(runtime_log,
                             [op |-> "cancel", id |-> activeInvocationID])
                 ELSE runtime_log
         invocationID == Len(invocations) + 1
     IN /\ fault = "cancel" => activeInvocationID # NULL
        /\ review_runs' = runs1
        /\ IF fault = "send"
           THEN /\ invocations' = invs1
                /\ runtime_log' = log1
                /\ wh' = [wh EXCEPT !.code = 500]
           ELSE /\ invocations' =
                     Append(invs1,
                            NewInvocation(NULL, FALSE, "webhook",
                                          Live(invocations), activeInvocationID))
                /\ runtime_log' =
                     Append(log1, [op |-> "submit", id |-> invocationID])
                /\ wh' = [wh EXCEPT !.pc = "create", !.inv = invocationID]
  /\ budget' = SpendFault(Spend("webhooks"), fault # "none")
  /\ UNCHANGED <<now, mr, review_comments, last_started_at, provVars, tr,
                 request, listing,
                 reply>>

\* WebhookHandler.ServeHTTP, last step: CreateReviewRunWithInvocation
WebhookCreateRun(f) ==
  /\ wh.pc = "create"
  /\ Fault(f)
  /\ review_runs' = IF f THEN review_runs
                    ELSE CreateReviewRunWithInvocation(review_runs, wh.inv)
  /\ wh' = [pc |-> "idle", inv |-> NULL, code |-> IF f THEN 500 ELSE 200]
  /\ budget' = SpendFault(budget, f)
  /\ UNCHANGED <<now, mr, review_comments, invocations, last_started_at,
                 provVars, runtime_log, tr, request, listing,
                 reply>>

\* WebhookHandler.ServeHTTP, an early return: the status is written and
\* nothing else is done
WebhookAnswer(code) ==
  /\ wh.pc = "idle"
  /\ budget.webhooks > 0
  /\ wh' = [wh EXCEPT !.code = code]
  /\ budget' = Spend("webhooks")
  /\ UNCHANGED <<now, mr, review_runs, review_comments, invocations,
                 last_started_at, provVars, runtime_log, tr, request, listing,
                 reply>>

\* WebhookHandler.ServeHTTP on the request under delivery
ServeHTTP ==
  /\ request # NoRequest
  /\ \/ /\ Route(request).act = "answer"
        /\ WebhookAnswer(Route(request).code)
     \/ /\ Route(request).act = "draft"
        /\ WebhookDraft(FALSE)
     \/ /\ Route(request).act = "dispatch"
        /\ WebhookDispatch(Route(request).transition, "none")

\* ------------------------------------------------------------ TriggerReview
\* ReviewHandler.TriggerReview up to SendPRReview: create the pending row and
\* submit the orchestration with run_id and force=true
TriggerReview(fault) ==
  /\ tr.pc = "idle"
  /\ budget.triggers > 0
  /\ Fault(fault # "none")
  /\ LET runs1 == CreateReviewRun(review_runs, NULL)
         runID == Len(runs1)
         invocationID == Len(invocations) + 1
     IN CASE fault = "create" ->
               UNCHANGED <<review_runs, invocations, runtime_log, tr>>
          [] fault = "send" ->
               /\ review_runs' = runs1
               /\ UNCHANGED <<invocations, runtime_log, tr>>
          [] OTHER ->
               /\ review_runs' = runs1
               /\ invocations' =
                    Append(invocations,
                           NewInvocation(runID, TRUE, "trigger",
                                         Live(invocations), NULL))
               /\ runtime_log' =
                    Append(runtime_log, [op |-> "submit", id |-> invocationID])
               /\ tr' = [pc |-> "update", run |-> runID, inv |-> invocationID]
  /\ budget' = SpendFault(Spend("triggers"), fault # "none")
  /\ UNCHANGED <<now, mr, review_comments, last_started_at, provVars, wh,
                 request, listing,
                 reply>>

\* ReviewHandler.TriggerReview, after the submit: UpdateReviewRunInvocationID
TriggerReviewStore(f) ==
  /\ tr.pc = "update"
  /\ Fault(f)
  /\ review_runs' = IF f THEN review_runs
                    ELSE UpdateReviewRunInvocationID(review_runs, tr.run, tr.inv)
  /\ tr' = [pc |-> "idle", run |-> NULL, inv |-> NULL]
  /\ budget' = SpendFault(budget, f)
  /\ UNCHANGED <<now, mr, review_comments, invocations, last_started_at,
                 provVars, runtime_log, wh, request, listing,
                 reply>>

\* ------------------------------------------------------------------ runtime
\* keyed execution: the oldest queued invocation starts when none is running
InvocationStart(i) ==
  /\ i \in 1..Len(invocations)
  /\ invocations[i].st = "queued"
  /\ Running = {}
  /\ \A j \in 1..(i - 1) : invocations[j].st # "queued"
  /\ invocations' = [invocations EXCEPT ![i].st = "running", ![i].pc = "start"]
  /\ UNCHANGED <<now, mr, review_runs, review_comments, last_started_at,
                 provVars, runtime_log, handlerVars, budget>>

\* the handler is executed again from its first line; the journal is kept
Reexecute(v) ==
  [v EXCEPT !.pc = "start", !.runID = NULL, !.terminal = FALSE]

End(v, outcome) ==
  [v EXCEPT !.st = "ended", !.pc = "done", !.outcome = outcome]

\* the handler returns err after fail(): terminal errors end the invocation,
\* any other error makes the runtime retry it
ToFail(v, terminal) == [v EXCEPT !.pc = "fail", !.terminal = terminal]

\* ---------------------------------------------------- PRReview.Run (handler)
SetInv(i, v) == invocations' = [invocations EXCEPT ![i] = v]

AtPc(i, pc) ==
  /\ i \in Running
  /\ invocations[i].pc = pc

\* variant of the debounce condition: the unconditional sleep of the plan
DebounceAlways(lastStarted, t) == TRUE

\* lastStarted > 0 && (now-lastStarted) < 3*60*1000
Debounce(lastStarted, t) ==
  lastStarted > 0 /\ (t - lastStarted) < DebounceMinutes

\* smart debounce: Get/Set last_started_at (journaled), time.Now() (not
\* journaled), and the decision to sleep.  On a re-execution the journaled
\* read is replayed and the decision is taken again with the fresh clock; a
\* decision that no longer matches the journaled Sleep entry is a journal
\* mismatch, after which the runtime cannot make the invocation progress.
RunStart(i) ==
  /\ AtPc(i, "start")
  /\ LET v == invocations[i]
         lastStarted == IF v.j_start THEN v.j_last ELSE last_started_at
         debounce == Debounce(lastStarted, now)
         first == debounce /\ v.j_sleep = "none"
     IN /\ last_started_at' = IF v.j_start THEN last_started_at ELSE now
        /\ SetInv(i, [v EXCEPT
             !.j_start = TRUE,
             !.j_last = lastStarted,
             !.j_sleep = IF first THEN "pending" ELSE @,
             !.j_wake = IF first THEN now + DebounceMinutes ELSE @,
             !.pc = IF debounce
                    THEN (IF v.j_sleep = "done" THEN "select" ELSE "sleeping")
                    ELSE (IF v.j_sleep = "none" THEN "select" ELSE "mismatch")])
  /\ UNCHANGED <<now, mr, review_runs, review_comments, provVars, runtime_log,
                 handlerVars, budget>>

\* restate.Sleep returns after 3 minutes
RunWake(i) ==
  /\ AtPc(i, "sleeping")
  /\ ~invocations[i].cancel
  /\ now >= invocations[i].j_wake
  /\ SetInv(i, [invocations[i] EXCEPT !.j_sleep = "done", !.pc = "select"])
  /\ UNCHANGED <<now, mr, review_runs, review_comments, last_started_at,
                 provVars, runtime_log, handlerVars, budget>>

\* variant of RunSleepCancelled: the error of restate.Sleep is dropped and
\* the execution goes on to the run-row selection
RunSleepIgnoresCancel(i) ==
  /\ AtPc(i, "sleeping")
  /\ invocations[i].cancel
  /\ SetInv(i, [invocations[i] EXCEPT !.pc = "select"])
  /\ UNCHANGED <<now, mr, review_runs, review_comments, last_started_at,
                 provVars, runtime_log, handlerVars, budget>>

\* restate.Sleep returns the cancellation error: return "", err
RunSleepCancelled(i) ==
  /\ AtPc(i, "sleeping")
  /\ invocations[i].cancel
  /\ SetInv(i, End(invocations[i], "cancelled"))
  /\ UNCHANGED <<now, mr, review_runs, review_comments, last_started_at,
                 provVars, runtime_log, handlerVars, budget>>

\* run-row selection: req.RunID, or db.CreateReviewRun
RunSelect(i, f) ==
  /\ AtPc(i, "select")
  /\ Fault(f)
  /\ LET v == invocations[i]
     IN IF v.run_id # NULL
        THEN /\ ~f
             /\ SetInv(i, [v EXCEPT !.runID = v.run_id, !.pc = "fetch"])
             /\ UNCHANGED review_runs
        ELSE IF f
        THEN /\ SetInv(i, Reexecute(v))
             /\ UNCHANGED review_runs
        ELSE /\ review_runs' = CreateReviewRun(review_runs, i)
             /\ SetInv(i, [v EXCEPT !.runID = Len(review_runs) + 1,
                                    !.pc = "fetch"])
  /\ budget' = SpendFault(budget, f)
  /\ UNCHANGED <<now, mr, review_comments, last_started_at, provVars,
                 runtime_log, handlerVars>>

\* the call of DiffFetcher/FetchPRDetails: replayed from the journal, or
\* cancelled, or failed terminally by the provider (f), or answered
RunFetch(i, f) ==
  /\ AtPc(i, "fetch")
  /\ Fault(f)
  /\ LET v == invocations[i]
     IN IF v.j_fetch.st # "none"
        THEN /\ ~f
             /\ SetInv(i, [v EXCEPT !.pc = "fetched"])
        ELSE IF v.cancel
        THEN /\ ~f
             /\ SetInv(i, [v EXCEPT !.j_fetch = [NoFetch EXCEPT !.st = "err"],
                                    !.pc = "fetched"])
        ELSE IF f
        THEN SetInv(i, [v EXCEPT !.j_fetch = [NoFetch EXCEPT !.st = "err"],
                                 !.pc = "fetched"])
        ELSE SetInv(i, [v EXCEPT
                          !.j_fetch = FetchPRDetails(mr, review_runs, v.force),
                          !.pc = "fetched"])
  /\ budget' = SpendFault(budget, f)
  /\ UNCHANGED <<now, mr, review_runs, review_comments, last_started_at,
                 provVars, runtime_log, handlerVars>>

\* DiffFetcher.FetchPRDetails gets provider error e from GetMRDetails or
\* GetMRDiff: classifyProviderError makes it terminal, and the awaiting
\* orchestrator receives it, or leaves it as it is, and the runtime calls
\* the fetcher again while the orchestrator keeps waiting
RunFetchError(i, e) ==
  /\ AtPc(i, "fetch")
  /\ invocations[i].j_fetch.st = "none"
  /\ ~invocations[i].cancel
  /\ e \in ProviderErrors
  /\ Fault(TRUE)
  /\ IF classifyProviderError(e)
     THEN SetInv(i, [invocations[i] EXCEPT
                       !.j_fetch = [NoFetch EXCEPT !.st = "err"],
                       !.pc = "fetched"])
     ELSE UNCHANGED invocations
  /\ budget' = SpendFault(budget, TRUE)
  /\ UNCHANGED <<now, mr, review_runs, review_comments, last_started_at,
                 provVars, runtime_log, handlerVars>>

\* after the fetch: error -> fail; draft -> status draft; skip -> status
\* skipped; otherwise UpdateReviewRunDiffHash
RunFetched(i, f) ==
  /\ AtPc(i, "fetched")
  /\ Fault(f)
  /\ LET v == invocations[i]
         fetchResp == v.j_fetch
     IN IF fetchResp.st = "err"
        THEN /\ ~f
             /\ SetInv(i, ToFail(v, TRUE))
             /\ UNCHANGED review_runs
        ELSE IF fetchResp.draft
        THEN /\ review_runs' =
                  IF f THEN review_runs
                  ELSE UpdateReviewRunStatus(review_runs, v.runID, "draft")
             /\ SetInv(i, End(v, "ok"))
        ELSE IF fetchResp.skip
        THEN IF f
             THEN /\ SetInv(i, Reexecute(v))
                  /\ UNCHANGED review_runs
             ELSE /\ review_runs' =
                       UpdateReviewRunStatus(review_runs, v.runID, "skipped")
                  /\ SetInv(i, End(v, "ok"))
        ELSE IF fetchResp.diff_hash = NULL
        THEN /\ ~f
             /\ SetInv(i, [v EXCEPT !.pc = "running"])
             /\ UNCHANGED review_runs
        ELSE IF f
        THEN /\ SetInv(i, ToFail(v, FALSE))
             /\ UNCHANGED review_runs
        ELSE /\ review_runs' = UpdateReviewRunDiffHash(review_runs, v.runID,
                                                       fetchResp.diff_hash)
             /\ SetInv(i, [v EXCEPT !.pc = "running"])
  /\ budget' = SpendFault(budget, f)
  /\ UNCHANGED <<now, mr, review_comments, last_started_at, provVars,
                 runtime_log, handlerVars>>

\* UpdateReviewRunStatus(running), then the too-large branch
RunMarkRunning(i, f) ==
  /\ AtPc(i, "running")
  /\ Fault(f)
  /\ LET v == invocations[i]
     IN IF f
        THEN /\ SetInv(i, ToFail(v, FALSE))
             /\ UNCHANGED review_runs
        ELSE /\ review_runs' =
                  UpdateReviewRunStatus(review_runs, v.runID, "running")
             /\ SetInv(i, [v EXCEPT !.pc = IF v.j_fetch.too_large
                                           THEN "post" ELSE "review"])
  /\ budget' = SpendFault(budget, f)
  /\ UNCHANGED <<now, mr, review_comments, last_started_at, provVars,
                 runtime_log, handlerVars>>

\* the call of Reviewer/RunReview is issued (or found in the journal)
RunReviewCall(i) ==
  /\ AtPc(i, "review")
  /\ LET v == invocations[i]
     IN CASE v.j_review.st = "ok" ->
               /\ SetInv(i, [v EXCEPT !.pc = "insert"])
               /\ UNCHANGED reviewer_calls
          [] v.j_review.st = "err" ->
               /\ SetInv(i, ToFail(v, TRUE))
               /\ UNCHANGED reviewer_calls
          [] v.j_review.st = "called" ->
               /\ SetInv(i, [v EXCEPT !.pc = "reviewing"])
               /\ UNCHANGED reviewer_calls
          [] v.j_review.st = "none" /\ v.cancel ->
               /\ SetInv(i, ToFail([v EXCEPT !.j_review.st = "err"], TRUE))
               /\ UNCHANGED reviewer_calls
          [] OTHER ->
               /\ SetInv(i, [v EXCEPT !.j_review.st = "called",
                                      !.pc = "reviewing"])
               /\ reviewer_calls' =
                    Append(reviewer_calls,
                           [inv |-> i, diff_hash |-> v.j_fetch.diff_hash])
  /\ UNCHANGED <<now, mr, review_runs, review_comments, last_started_at,
                 provider_notes, provider_discussions, runtime_log,
                 handlerVars, budget>>

\* the Reviewer answers with n comments, or fails terminally (f), or the
\* pending call is cancelled
RunReviewReturn(i, n, f) ==
  /\ AtPc(i, "reviewing")
  /\ Fault(f)
  /\ LET v == invocations[i]
     IN IF v.cancel \/ f
        THEN /\ n = 0
             /\ v.cancel => ~f
             /\ SetInv(i, ToFail([v EXCEPT !.j_review.st = "err"], TRUE))
        ELSE SetInv(i, [v EXCEPT !.j_review = [st |-> "ok", n |-> n],
                                 !.pc = "insert"])
  /\ budget' = SpendFault(budget, f)
  /\ UNCHANGED <<now, mr, review_runs, review_comments, last_started_at,
                 provVars, runtime_log, handlerVars>>

\* db.InsertReviewComments: one INSERT per comment; when f, the statement
\* after the first k rows fails
RunInsertComments(i, f, k) ==
  /\ AtPc(i, "insert")
  /\ Fault(f)
  /\ LET v == invocations[i]
         n == v.j_review.n
     IN IF f
        THEN /\ k < n
             /\ review_comments' =
                  InsertReviewComments(review_comments, v.runID, 1, k)
             /\ SetInv(i, ToFail(v, FALSE))
        ELSE /\ k = n
             /\ review_comments' =
                  InsertReviewComments(review_comments, v.runID, 1, n)
             /\ SetInv(i, [v EXCEPT !.pc = "post"])
  /\ budget' = SpendFault(budget, f)
  /\ UNCHANGED <<now, mr, review_runs, last_started_at, provVars, runtime_log,
                 handlerVars>>

\* the call of PostReview/Post is issued (or found in the journal); its
\* request carries the run id, which the Post executions keep
RunPostCall(i) ==
  /\ AtPc(i, "post")
  /\ LET v == invocations[i]
     IN SetInv(i,
          CASE v.j_post = "ok" -> [v EXCEPT !.pc = "complete"]
            [] v.j_post = "err" -> ToFail(v, TRUE)
            [] v.j_post = "called" -> [v EXCEPT !.pc = "posting"]
            [] v.j_post = "none" /\ v.cancel ->
                 ToFail([v EXCEPT !.j_post = "err"], TRUE)
            [] OTHER -> [v EXCEPT !.j_post = "called", !.post_run = v.runID,
                                  !.post_pc = "start",
                                  !.pc = "posting"])
  /\ UNCHANGED <<now, mr, review_runs, review_comments, last_started_at,
                 provVars, runtime_log, handlerVars, budget>>

\* the Post call returns to Run, or the pending call is cancelled (which
\* cancels the Post invocation as well)
RunPostReturn(i) ==
  /\ AtPc(i, "posting")
  /\ LET v == invocations[i]
     IN \/ /\ v.j_post = "ok"
           /\ SetInv(i, [v EXCEPT !.pc = "complete"])
        \/ /\ v.j_post = "err"
           /\ SetInv(i, ToFail(v, TRUE))
        \/ /\ v.j_post = "called"
           /\ v.cancel
           /\ SetInv(i, ToFail([v EXCEPT !.j_post = "err",
                                         !.post_pc = "idle"], TRUE))
  /\ UNCHANGED <<now, mr, review_runs, review_comments, last_started_at,
                 provVars, runtime_log, handlerVars, budget>>

\* UpdateReviewRunStatus(completed); return runID, nil
RunMarkCompleted(i, f) ==
  /\ AtPc(i, "complete")
  /\ Fault(f)
  /\ LET v == invocations[i]
     IN IF f
        THEN /\ SetInv(i, ToFail(v, FALSE))
             /\ UNCHANGED review_runs
        ELSE /\ review_runs' =
                  UpdateReviewRunStatus(review_runs, v.runID, "completed")
             /\ SetInv(i, End(v, "ok"))
  /\ budget' = SpendFault(budget, f)
  /\ UNCHANGED <<now, mr, review_comments, last_started_at, provVars,
                 runtime_log, handlerVars>>

\* fail(err): UpdateReviewRunStatus(failed), its error ignored; return "", err
RunFail(i, f) ==
  /\ AtPc(i, "fail")
  /\ Fault(f)
  /\ LET v == invocations[i]
     IN /\ review_runs' =
             IF f THEN review_runs
             ELSE UpdateReviewRunStatus(review_runs, v.runID, "failed")
        /\ SetInv(i, IF v.terminal THEN End(v, "failed") ELSE Reexecute(v))
  /\ budget' = SpendFault(budget, f)
  /\ UNCHANGED <<now, mr, review_comments, last_started_at, provVars,
                 runtime_log, handlerVars>>

\* the worker process dies while the handler runs; the runtime re-executes it
Crash(i) ==
  /\ i \in Running
  /\ invocations[i].pc \notin {"start", "mismatch"}
  /\ budget.crashes > 0
  /\ SetInv(i, Reexecute(invocations[i]))
  /\ budget' = Spend("crashes")
  /\ UNCHANGED <<now, mr, review_runs, review_comments, last_started_at,
                 provVars, runtime_log, handlerVars>>

\* ------------------------------------------------------- PostReview.Post
InPost(i, pc) ==
  /\ i \in Running
  /\ invocations[i].post_pc = pc

\* req.Summary: the canned too-large message or the reviewer's summary
SummaryOf(v) == IF v.j_fetch.too_large THEN "too_large" ELSE "review"

\* a non-terminal error: the runtime invokes Post again from its first line
PostRetry(v) == [v EXCEPT !.post_pc = "start"]

\* a terminal error is returned to the caller
PostTerminal(v) == [v EXCEPT !.post_pc = "idle", !.j_post = "err"]

\* variant of PostStoreSummary without the "if req.DryRun" return
PostStoreSummaryNoDryRun(i, f) ==
  /\ InPost(i, "start")
  /\ Fault(f)
  /\ LET v == invocations[i]
     IN IF f
        THEN /\ SetInv(i, PostRetry(v))
             /\ UNCHANGED review_runs
        ELSE /\ review_runs' =
                  UpdateReviewRunSummary(review_runs, v.post_run, SummaryOf(v))
             /\ SetInv(i, [v EXCEPT !.post_pc = "note", !.post_loaded = <<>>,
                                    !.post_i = 0, !.post_skip = {},
                                    !.post_calls = {}])
  /\ budget' = SpendFault(budget, f)
  /\ UNCHANGED <<now, mr, review_comments, last_started_at, provVars,
                 runtime_log, handlerVars>>

\* db.UpdateReviewRunSummary, first statement of every Post execution, and
\* the return of a dry run: PostResponse{SummaryPosted: false}, nil
PostStoreSummary(i, f) ==
  /\ InPost(i, "start")
  /\ Fault(f)
  /\ LET v == invocations[i]
     IN IF f
        THEN /\ SetInv(i, PostRetry(v))
             /\ UNCHANGED review_runs
        ELSE /\ review_runs' =
                  UpdateReviewRunSummary(review_runs, v.post_run, SummaryOf(v))
             /\ SetInv(i, IF v.dry_run
                          THEN [v EXCEPT !.post_pc = "idle", !.j_post = "ok",
                                         !.post_resp = PostResponse(0, FALSE)]
                          ELSE [v EXCEPT !.post_pc = "note",
                                         !.post_loaded = <<>>, !.post_i = 0,
                                         !.post_skip = {}, !.post_calls = {}])
  /\ budget' = SpendFault(budget, f)
  /\ UNCHANGED <<now, mr, review_comments, last_started_at, provVars,
                 runtime_log, handlerVars>>

\* client.PostComment: the summary note
PostNote(i, e) ==
  /\ InPost(i, "note")
  /\ Fault(e # "ok")
  /\ LET v == invocations[i]
     IN IF e = "ok"
        THEN /\ provider_notes' =
                  Append(provider_notes,
                         [run |-> v.post_run, inv |-> i, body |-> SummaryOf(v)])
             /\ SetInv(i, [v EXCEPT !.post_pc = "load"])
        ELSE /\ UNCHANGED provider_notes
             /\ SetInv(i, IF classifyProviderError(e) THEN PostTerminal(v)
                          ELSE PostRetry(v))
  /\ budget' = SpendFault(budget, e # "ok")
  /\ UNCHANGED <<now, mr, review_runs, review_comments, last_started_at,
                 provider_discussions, reviewer_calls, runtime_log,
                 handlerVars>>

\* db.GetUnpostedComments
PostLoad(i) ==
  /\ InPost(i, "load")
  /\ LET v == invocations[i]
     IN SetInv(i, [v EXCEPT
          !.post_pc = "loop",
          !.post_loaded = GetUnpostedComments(review_comments, v.post_run),
          !.post_i = 1,
          !.post_skip = {c \in 1..Len(review_comments) :
                           /\ review_comments[c].review_run_id = v.post_run
                           /\ review_comments[c].provider_comment_id # NULL}])
  /\ UNCHANGED <<now, mr, review_runs, review_comments, last_started_at,
                 provVars, runtime_log, handlerVars, budget>>

\* one iteration of the inline loop: client.PostInlineComment answers e, then
\* db.MarkCommentPosted (which fails when f).  PostInlineComment takes the
\* position's head_sha from the MR's latest version (getMRVersions)
PostInline(i, e, f) ==
  /\ InPost(i, "loop")
  /\ invocations[i].post_i <= Len(invocations[i].post_loaded)
  /\ budget.faults >= (IF e # "ok" THEN 1 ELSE 0) + (IF f THEN 1 ELSE 0)
  /\ LET v == invocations[i]
         c == v.post_loaded[v.post_i]
         called == [v EXCEPT !.post_calls = @ \cup {c}]
     IN CASE e = "ok" ->
               /\ provider_discussions' =
                    Append(provider_discussions,
                           [comment |-> c, run |-> v.post_run, inv |-> i,
                            head_sha |-> mr.head])
               /\ IF f
                  THEN /\ UNCHANGED review_comments
                       /\ SetInv(i, PostRetry(called))
                  ELSE /\ review_comments' =
                            MarkCommentPosted(review_comments, c,
                                              Len(provider_discussions) + 1)
                       /\ SetInv(i, [called EXCEPT !.post_i = @ + 1])
          [] e = "InvalidInput" ->
               /\ UNCHANGED provider_discussions
               /\ IF f
                  THEN /\ UNCHANGED review_comments
                       /\ SetInv(i, PostRetry(called))
                  ELSE /\ review_comments' =
                            MarkCommentPosted(review_comments, c, Skipped)
                       /\ SetInv(i, [called EXCEPT !.post_i = @ + 1])
          [] OTHER ->
               /\ ~f
               /\ UNCHANGED <<provider_discussions, review_comments>>
               /\ SetInv(i, IF classifyProviderError(e)
                            THEN PostTerminal(called) ELSE PostRetry(called))
  /\ budget' = SpendFault(SpendFault(budget, e # "ok"), f)
  /\ UNCHANGED <<now, mr, review_runs, last_started_at, provider_notes,
                 reviewer_calls, runtime_log, handlerVars>>

\* the comments this execution of Post has posted: the rows it loaded as
\* unposted that now carry a provider id
Posted(v) ==
  {k \in 1..Len(v.post_loaded) :
     review_comments[v.post_loaded[k]].provider_comment_id
       \notin {NULL, Skipped}}

\* the loop is over: return PostResponse{posted, true}, nil
PostReturn(i) ==
  /\ InPost(i, "loop")
  /\ invocations[i].post_i > Len(invocations[i].post_loaded)
  /\ SetInv(i, [invocations[i] EXCEPT
                  !.post_pc = "idle", !.j_post = "ok",
                  !.post_resp =
                    PostResponse(Cardinality(Posted(invocations[i])), TRUE)])
  /\ UNCHANGED <<now, mr, review_runs, review_comments, last_started_at,
                 provVars, runtime_log, handlerVars, budget>>

\* the worker process dies while Post runs; the runtime re-executes Post
PostCrash(i) ==
  /\ i \in Running
  /\ invocations[i].post_pc \in {"note", "load", "loop"}
  /\ budget.crashes > 0
  /\ SetInv(i, PostRetry(invocations[i]))
  /\ budget' = Spend("crashes")
  /\ UNCHANGED <<now, mr, review_runs, review_comments, last_started_at,
                 provVars, runtime_log, handlerVars>>

\* ------------------------------------------------------------ specifications
Ids == 1..(MaxWebhooks + MaxTriggers)

DispatchFaults == {"transition", "lookup", "cancel", "send"}
TriggerFaults == {"create", "send"}

Environment ==
  \/ \E h \in Heads, l \in LineCounts : Push(h, l)
  \/ SetDraft
  \/ Tick

IngressSteps ==
  \/ WebhookDraft(FALSE)
  \/ \E d \in BOOLEAN : WebhookDispatch(d, "none")
  \/ WebhookCreateRun(FALSE)

IngressFaults ==
  \/ WebhookDraft(TRUE)
  \/ \E d \in BOOLEAN, f \in DispatchFaults : WebhookDispatch(d, f)
  \/ WebhookCreateRun(TRUE)

TriggerSteps ==
  \/ TriggerReview("none")
  \/ TriggerReviewStore(FALSE)

TriggerFailures ==
  \/ \E f \in TriggerFaults : TriggerReview(f)
  \/ TriggerReviewStore(TRUE)

\* N: the numbers of comments the Reviewer may answer with
OrchestratorSteps(N) ==
  \E i \in Ids :
    \/ InvocationStart(i)
    \/ RunStart(i)
    \/ RunSelect(i, FALSE)
    \/ RunFetch(i, FALSE)
    \/ RunFetched(i, FALSE)
    \/ RunMarkRunning(i, FALSE)
    \/ RunReviewCall(i)
    \/ \E n \in N : RunReviewReturn(i, n, FALSE)
    \/ \E k \in N : RunInsertComments(i, FALSE, k)
    \/ RunPostCall(i)
    \/ RunPostReturn(i)
    \/ RunMarkCompleted(i, FALSE)

OrchestratorFailed ==
  \E i \in Ids : RunFail(i, FALSE)

OrchestratorFaults ==
  \E i \in Ids :
    \/ RunSelect(i, TRUE)
    \/ RunFetch(i, TRUE)
    \/ RunFetched(i, TRUE)
    \/ RunMarkRunning(i, TRUE)
    \/ RunReviewReturn(i, 0, TRUE)
    \/ \E k \in 0..MaxComments : RunInsertComments(i, TRUE, k)
    \/ RunMarkCompleted(i, TRUE)
    \/ RunFail(i, TRUE)

PosterSteps ==
  \E i \in Ids :
    \/ PostStoreSummary(i, FALSE)
    \/ PostNote(i, "ok")
    \/ PostLoad(i)
    \/ PostInline(i, "ok", FALSE)
    \/ PostReturn(i)

PosterFaults ==
  \E i \in Ids :
    \/ PostStoreSummary(i, TRUE)
    \/ \E e \in ProviderErrors : PostNote(i, e)
    \/ \E e \in ProviderErrors, f \in BOOLEAN : PostInline(i, e, f)
    \/ PostInline(i, "ok", TRUE)

Crashes ==
  \E i \in Ids : Crash(i) \/ PostCrash(i)

\* webhooks, pushes and the clock, without faults: the cancel-then-dispatch
\* protocol, the debounce and the dedup
Next ==
  \/ Environment
  \/ IngressSteps
  \/ OrchestratorSteps(0..MaxComments)
  \/ OrchestratorFailed
  \/ PosterSteps
  \/ \E i \in Ids : RunWake(i)

Spec == Init /\ [][Next]_vars

\* one TriggerReview with failing statements and calls, retries and crashes
InitFault ==
  /\ Init0
  /\ budget = [webhooks |-> 0, triggers |-> MaxTriggers, edits |-> 0,
               faults |-> PostFaults, crashes |-> MaxCrashes]

NextFault ==
  \/ TriggerSteps
  \/ TriggerFailures
  \/ OrchestratorSteps(0..MaxComments)
  \/ OrchestratorFailed
  \/ OrchestratorFaults
  \/ PosterSteps
  \/ PosterFaults
  \/ Crashes

SpecFault == InitFault /\ [][NextFault]_vars

\* one webhook whose orchestration crashes and is replayed
InitCrash ==
  /\ Init0
  /\ budget = [webhooks |-> 1, triggers |-> 0, edits |-> 0, faults |-> 0,
               crashes |-> MaxCrashes]

NextCrash ==
  \/ Tick
  \/ IngressSteps
  \/ OrchestratorSteps(0..MaxComments)
  \/ PosterSteps
  \/ Crashes

SpecCrash == InitCrash /\ [][NextCrash]_vars

\* three webhooks of a ready MR that is pushed to twice: a head can come back
\* to a commit that an older run reviewed
InitDedup ==
  /\ Init0
  /\ ~mr.draft
  /\ mr.lines = maxChangedLines
  /\ budget = [webhooks |-> MaxWebhooks + 1, triggers |-> 0,
               edits |-> MaxEdits + 1, faults |-> 0, crashes |-> 0]

NextDedup ==
  \/ \E h \in Heads : Push(h, mr.lines)
  \/ Tick
  \/ WebhookDispatch(FALSE, "none")
  \/ WebhookCreateRun(FALSE)
  \/ OrchestratorSteps({MaxComments})
  \/ OrchestratorFailed
  \/ PosterSteps
  \/ \E i \in Ids : RunWake(i) \/ RunSleepCancelled(i)

SpecDedup == InitDedup /\ [][NextDedup]_vars

\* ------------------------------------------------------------------ claims
Runs == 1..Len(review_runs)
Comments == 1..Len(review_comments)
Invs == 1..Len(invocations)

Terminal == {"completed", "failed", "skipped"}

Ended(i) == invocations[i].st = "ended"

Quiescent ==
  /\ wh.pc = "idle"
  /\ tr.pc = "idle"
  /\ \A i \in Invs : Ended(i)

\* C1: at any instant at most one review run of a merge request has status
\* pending or running
C1_SingleActiveRun ==
  Cardinality({k \in Runs : review_runs[k].status \in {"pending", "running"}}) <= 1

\* C2: a review run whose status is completed, failed or skipped keeps that
\* status in every later step
C2_TerminalStatusStable ==
  [][\A k \in Runs :
       review_runs[k].status \in Terminal
         => review_runs'[k].status = review_runs[k].status]_vars

\* C3: the provider receives at most one inline discussion for a comment row,
\* however often Post is executed again after a partial failure
C3_OneDiscussionPerComment ==
  \A c \in Comments :
    Cardinality({d \in 1..Len(provider_discussions) :
                   provider_discussions[d].comment = c}) <= 1

\* C4: the provider receives at most one summary note for a review run,
\* however often Post is executed for that run
C4_OneSummaryNotePerRun ==
  \A k \in Runs :
    Cardinality({p \in 1..Len(provider_notes) :
                   provider_notes[p].run = k}) <= 1

C7_ReplayLeavesSameRows ==
  \A i \in Invs :
    (Ended(i) /\ invocations[i].outcome = "ok") =>
      LET own == {k \in Runs : review_runs[k].creator = i}
      IN /\ Cardinality(own) <= 1
         /\ invocations[i].j_review.st = "ok" =>
              \A m \in 1..invocations[i].j_review.n :
                Cardinality({c \in Comments :
                               /\ review_comments[c].review_run_id \in own
                               /\ review_comments[c].comment = m}) = 1

\* what C8 concludes for invocation i: its run went from pending to skipped
\* and nothing was reviewed or posted
SkippedUntouched(i) ==
  LET v == invocations[i]
  IN /\ v.runID \in Runs
     /\ review_runs[v.runID].status = "skipped"
     /\ review_runs[v.runID].diff_hash = NULL
     /\ review_runs[v.runID].summary = ""
     /\ v.j_review.st = "none"
     /\ v.j_post = "none"
     /\ \A r \in 1..Len(reviewer_calls) : reviewer_calls[r].inv # i
     /\ \A p \in 1..Len(provider_notes) : provider_notes[p].inv # i
     /\ \A d \in 1..Len(provider_discussions) : provider_discussions[d].inv # i

C9_RapidRepushOneReview ==
  (/\ Len(invocations) = 2
   /\ Quiescent
   /\ \A i \in Invs : invocations[i].src = "webhook"
                      /\ ~invocations[i].j_fetch.too_large
                      /\ ~invocations[i].j_fetch.draft
   /\ invocations[2].sub_head # invocations[1].sub_head
   /\ invocations[2].sub_time - invocations[1].sub_time < DebounceMinutes
   /\ 1 \in invocations[2].sub_live)
    => /\ Cardinality({k \in Runs : review_runs[k].status = "completed"}) = 1
       /\ \A k \in Runs : review_runs[k].status = "completed"
                            => review_runs[k].diff_hash = invocations[2].sub_head
       /\ Len(reviewer_calls) = 1

\* C10: when the webhook handler submits an orchestration while an earlier
\* invocation of the MR is live, it has asked the runtime to cancel that
\* invocation before the submit
C10_CancelBeforeSubmit ==
  \A j \in Invs :
    invocations[j].src = "webhook" =>
      \A i \in invocations[j].sub_live :
        /\ invocations[j].sub_cancelled = i
        /\ \E p, q \in 1..Len(runtime_log) :
             /\ p < q
             /\ runtime_log[p] = [op |-> "cancel", id |-> i]
             /\ runtime_log[q] = [op |-> "submit", id |-> j]

\* ---------------------------------------------------------------- liveness
\* one webhook and one TriggerReview, no failing call; the runtime runs the
\* submitted orchestrations and every call returns
InitLive ==
  /\ Init0
  /\ budget = [webhooks |-> 1, triggers |-> MaxTriggers, edits |-> 0,
               faults |-> 0, crashes |-> 0]

\* time does not stop while an orchestration sleeps: the clock runs on to the
\* wake-up time of restate.Sleep
TickToWake ==
  /\ now >= MaxTime
  /\ \E i \in Ids : AtPc(i, "sleeping") /\ now < invocations[i].j_wake
  /\ now' = now + 1
  /\ UNCHANGED <<mr, review_runs, review_comments, invocations,
                 last_started_at, provVars, runtime_log, handlerVars, budget>>

NextLive ==
  \/ Tick
  \/ TickToWake
  \/ IngressSteps
  \/ TriggerSteps
  \/ OrchestratorSteps(0..MaxComments)
  \/ OrchestratorFailed
  \/ PosterSteps
  \/ \E i \in Ids : RunWake(i)

SpecLive == InitLive /\ [][NextLive]_vars /\ WF_vars(NextLive)

\* ids that rows of review_runs can take
RowIds == 1..(2 * (MaxWebhooks + MaxTriggers))

\* C11: every review run created in status pending eventually reaches
\* completed, failed, skipped or draft, when the runtime runs every submitted
\* orchestration and every call returns
C11_PendingRunEventuallySettles ==
  \A k \in RowIds :
    (k \in Runs /\ review_runs[k].status = "pending")
      ~> (k \in Runs /\ review_runs[k].status \in Terminal \cup {"draft"})


\* ---------------------------------------------------------------- C12
NotesOfRun(r) == SelectSeq(provider_notes, LAMBDA x : x.run = r)
DiscussionsOfRun(r) == SelectSeq(provider_discussions, LAMBDA x : x.run = r)
ReviewerCallsOf(i) == SelectSeq(reviewer_calls, LAMBDA x : x.inv = i)
RowsOfRun(r) == {c \in Comments : review_comments[c].review_run_id = r}

\* the Reviewer's comments, in the order of the discussions the provider got
PostedOrder(r) ==
  [k \in 1..Len(DiscussionsOfRun(r)) |->
     review_comments[DiscussionsOfRun(r)[k].comment].comment]

\* a TriggerReview orchestration of a non-draft MR of at most 5000 changed
\* lines that was not cancelled
TriggeredReview(i) ==
  /\ i \in Invs
  /\ invocations[i].src = "trigger"
  /\ ~invocations[i].cancel
  /\ invocations[i].j_fetch.st = "ok"
  /\ ~invocations[i].j_fetch.draft
  /\ ~invocations[i].j_fetch.too_large

C12_ReviewDone(i) ==
  LET v == invocations[i]
      n == v.j_review.n
  IN /\ v.outcome = "ok"
     /\ Len(ReviewerCallsOf(i)) = 1
     /\ Len(NotesOfRun(v.runID)) = 1
     /\ NotesOfRun(v.runID)[1].body = "review"
     /\ PostedOrder(v.runID) = [k \in 1..n |-> k]
     /\ Cardinality(RowsOfRun(v.runID)) = n
     /\ \A c \in RowsOfRun(v.runID) :
          review_comments[c].provider_comment_id # NULL
     /\ review_runs[v.runID].status = "completed"

C12_StatusSteps ==
  \A i \in Invs :
    LET r == invocations[i].run_id
    IN (TriggeredReview(i)' /\ review_runs'[r].status # review_runs[r].status)
         => <<review_runs[r].status, review_runs'[r].status>>
              \in {<<"pending", "running">>, <<"running", "completed">>}

DraftWebhookRows ==
  {k \in Runs : /\ review_runs[k].creator = NULL
                /\ review_runs[k].restate_invocation_id = NULL}

Submits == SelectSeq(runtime_log, LAMBDA x : x.op = "submit")

\* only the draft-MR open webhook has been handled
AfterDraftWebhook ==
  /\ wh.pc = "idle"
  /\ Len(review_runs) = 1
  /\ review_runs[1].status = "draft"
  /\ budget.webhooks = MaxWebhooks - 1

\* the draft webhook and then the draft-to-ready update webhook have been
\* handled and the dispatched orchestration has returned
AfterDraftToReady ==
  /\ Quiescent
  /\ budget.webhooks = MaxWebhooks - 2
  /\ DraftWebhookRows = {1}
  /\ review_runs[1].status # "draft"
  /\ Len(invocations) = 1
  /\ invocations[1].outcome = "ok"
  /\ ~invocations[1].j_fetch.too_large

\* C13: after a draft-MR open webhook and a draft-to-ready update webhook for
\* the same MR, without failures: the first makes no provider call and
\* dispatches nothing; the second takes the draft row to pending and
\* dispatches one orchestration; the run ends completed and the Reviewer is
\* called exactly once.
C13_DraftThenReady ==
  /\ AfterDraftWebhook =>
       /\ runtime_log = <<>>
       /\ invocations = <<>>
       /\ provider_notes = <<>>
       /\ provider_discussions = <<>>
  /\ AfterDraftToReady =>
       /\ Len(Submits) = 1
       /\ Len(reviewer_calls) = 1
       /\ review_runs[1].status = "completed"


\* ------------------------------------------------ webhook request handling
\* one arbitrary request is under delivery (the sender may repeat it); a
\* second, well-formed merge-request webhook may be handled before or after
\* it, so that rows and a live invocation exist when the request arrives
InitIngress ==
  /\ now = 1
  /\ mr \in [head : {1}, draft : BOOLEAN, lines : {maxChangedLines}]
  /\ review_runs = <<>>
  /\ review_comments = <<>>
  /\ invocations = <<>>
  /\ last_started_at = 0
  /\ provider_notes = <<>>
  /\ provider_discussions = <<>>
  /\ reviewer_calls = <<>>
  /\ runtime_log = <<>>
  /\ wh = [pc |-> "idle", inv |-> NULL, code |-> 0]
  /\ request \in Requests
  /\ listing = NoListing
  /\ reply = NoReply
  /\ tr = [pc |-> "idle", run |-> NULL, inv |-> NULL]
  /\ budget = [webhooks |-> MaxWebhooks, triggers |-> 0, edits |-> 0,
               faults |-> 0, crashes |-> 0]

NextIngress ==
  \/ ServeHTTP
  \/ IngressSteps

SpecIngress == InitIngress /\ [][NextIngress]_vars

\* the request passes the token check of its (known) provider
Authenticated(req) ==
  /\ req.provider = "secret"
  /\ req.token = "match"

NoOrchestrationEffect == UNCHANGED <<review_runs, invocations, runtime_log>>

\* ---------------------------------------------------------------- C14
\* C14: a webhook request whose X-Gitlab-Token is missing or differs from the
\* provider's stored secret, or whose provider has no stored secret, is
\* answered 401 and creates or changes no ReviewRun, cancels nothing and
\* submits nothing, whatever its body contains.
C14_BadTokenRejected ==
  [][(/\ ServeHTTP
      /\ request.provider # "unknown"
      /\ (request.token # "match" \/ request.provider = "no_secret"))
       => (wh'.code = 401 /\ NoOrchestrationEffect)]_vars

C14_RejectedWithLiveInvocation ==
  /\ request.provider = "secret"
  /\ request.token = "wrong"
  /\ request.body = "valid"
  /\ request.object_kind = "merge_request"
  /\ request.action = "open"
  /\ request.repo = "enabled"
  /\ wh.pc = "idle"
  /\ wh.code = 401
  /\ budget.webhooks = 0
  /\ Len(review_runs) = 1
  /\ Live(invocations) = {1}


\* ---------------------------------------------------------------- C15
\* a body that is not one well-formed JSON document of the payload's shape:
\* a syntax or type error, or a well-formed payload followed by other bytes
Malformed(body) == body # "valid"

\* C15: a webhook request with a malformed JSON body is answered with a 4xx
\* status (400 when the token is valid), never 5xx, and creates no ReviewRun,
\* cancels nothing and submits nothing.
C15_MalformedBodyRejected ==
  [][(ServeHTTP /\ Malformed(request.body))
       => /\ wh'.code \in 400..499
          /\ Authenticated(request) => wh'.code = 400
          /\ NoOrchestrationEffect]_vars

\* ---------------------------------------------------------------- C16
Ignored(req) ==
  \/ req.object_kind # "merge_request"
  \/ req.action \notin {"open", "update", "reopen"}
  \/ req.repo = "unknown"
  \/ req.repo = "disabled"

\* C16: a validly authenticated webhook (with a decodable body) returns 200,
\* leaves all ReviewRun rows unchanged, cancels nothing and submits nothing
\* whenever object_kind is not merge_request, or the action is not one of
\* open, update, reopen, or no repository exists for (provider, project), or
\* the repository has review_enabled = false.
C16_IgnoredWebhookChangesNothing ==
  [][(/\ ServeHTTP
      /\ Authenticated(request)
      /\ Decode(request.body)
      /\ Ignored(request))
       => (wh'.code = 200 /\ NoOrchestrationEffect)]_vars

C16_DisabledRepoIgnored ==
  /\ Authenticated(request)
  /\ request.body = "valid"
  /\ request.object_kind = "merge_request"
  /\ request.action = "open"
  /\ request.repo = "disabled"
  /\ wh.pc = "idle"
  /\ wh.code = 200
  /\ budget.webhooks = 0
  /\ Len(review_runs) = 1
  /\ Live(invocations) = {1}
  /\ Len(runtime_log) = 1

\* ---------------------------------------------------------------- C17
DraftNotReady(req) ==
  /\ req.object_kind = "merge_request"
  /\ req.action \in {"open", "update", "reopen"}
  /\ req.repo = "enabled"
  /\ req.draft \/ req.work_in_progress
  /\ ~(req.action = "update" /\ req.changes = "to_ready")

\* C17: a validly authenticated open, update or reopen webhook for a
\* review-enabled repository whose MR is marked draft or work_in_progress, and
\* which is not a draft-to-ready transition, creates exactly one ReviewRun, in
\* status draft, returns 200, cancels nothing and submits nothing.
C17_DraftWebhookCreatesDraftRun ==
  [][(/\ ServeHTTP
      /\ Authenticated(request)
      /\ Decode(request.body)
      /\ DraftNotReady(request))
       => /\ Len(review_runs') = Len(review_runs) + 1
          /\ SubSeq(review_runs', 1, Len(review_runs)) = review_runs
          /\ review_runs'[Len(review_runs')].status = "draft"
          /\ wh'.code = 200
          /\ UNCHANGED <<invocations, runtime_log>>]_vars

C17_WorkInProgressRowCreated ==
  /\ Authenticated(request)
  /\ request.body = "valid"
  /\ DraftNotReady(request)
  /\ ~request.draft
  /\ request.action = "update"
  /\ wh.pc = "idle"
  /\ wh.code = 200
  /\ budget.webhooks = MaxWebhooks - 1
  /\ Len(review_runs) = 1
  /\ review_runs[1].status = "draft"
  /\ runtime_log = <<>>


\* ---------------------------------------------------------------- C18
\* the orchestration takes the too-large path for its run: the MR is not a
\* draft, the review is not skipped, and diff_too_large is set
TooLargeRun(i) ==
  /\ i \in Invs
  /\ invocations[i].j_fetch.st = "ok"
  /\ ~invocations[i].j_fetch.draft
  /\ ~invocations[i].j_fetch.skip
  /\ invocations[i].j_fetch.too_large
  /\ invocations[i].runID # NULL

\* C18: a run whose diff is too large ends in status completed and never in
\* status failed, and for it the provider receives exactly one note (the
\* canned too-large message) and no inline discussion.
C18_TooLargeOneNoteCompleted ==
  \A i \in Invs :
    TooLargeRun(i) =>
      LET r == invocations[i].runID
      IN /\ review_runs[r].status # "failed"
         /\ DiscussionsOfRun(r) = <<>>
         /\ Len(NotesOfRun(r)) <= 1
         /\ \A k \in 1..Len(NotesOfRun(r)) : NotesOfRun(r)[k].body = "too_large"
         /\ Ended(i) => /\ review_runs[r].status = "completed"
                        /\ Len(NotesOfRun(r)) = 1


\* ---------------------------------------------------------------- C19
\* the orchestration fetched the diff of a non-draft MR and did not skip
Fetched(i) ==
  /\ i \in Invs
  /\ invocations[i].j_fetch.st = "ok"
  /\ ~invocations[i].j_fetch.draft
  /\ ~invocations[i].j_fetch.skip

\* C19: the too-large path is taken exactly when the diff's changed-line
\* count is greater than 5000: with exactly 5000 changed lines the Reviewer
\* is called and the run is reviewed normally, with 5001 the Reviewer is
\* never called.
C19_TooLargeAbove5000 ==
  \A i \in Invs :
    Fetched(i) =>
      LET v == invocations[i]
          lines == v.j_fetch.changed_lines
      IN /\ v.j_fetch.too_large <=> lines > 5000
         /\ lines > 5000 =>
              /\ ReviewerCallsOf(i) = <<>>
              /\ v.pc \notin {"review", "reviewing", "insert"}
              /\ \A k \in 1..Len(NotesOfRun(v.runID)) :
                   NotesOfRun(v.runID)[k].body = "too_large"
         /\ lines <= 5000 =>
              /\ \A k \in 1..Len(NotesOfRun(v.runID)) :
                   NotesOfRun(v.runID)[k].body = "review"
              /\ (Ended(i) /\ v.outcome = "ok") =>
                   /\ Len(ReviewerCallsOf(i)) = 1
                   /\ Len(NotesOfRun(v.runID)) = 1
                   /\ review_runs[v.runID].status = "completed"

C19_ReviewedAt5000NotAt5001 ==
  /\ Quiescent
  /\ Len(invocations) = 2
  /\ Fetched(1)
  /\ Fetched(2)
  /\ invocations[1].j_fetch.changed_lines = 5000
  /\ invocations[2].j_fetch.changed_lines = 5001
  /\ invocations[1].outcome = "ok"
  /\ invocations[2].outcome = "ok"
  /\ Len(reviewer_calls) = 1
  /\ reviewer_calls[1].inv = 1


\* ------------------------------------------- provider rejects a position
\* one TriggerReview; the provider may answer InvalidInput to inline
\* discussions, and the process may restart; nothing else fails
InitSkip ==
  /\ Init0
  /\ budget = [webhooks |-> 0, triggers |-> MaxTriggers, edits |-> 0,
               faults |-> PostFaults, crashes |-> MaxCrashes]

NextSkip ==
  \/ TriggerSteps
  \/ OrchestratorSteps(0..MaxComments)
  \/ PosterSteps
  \/ \E i \in Ids : PostInline(i, "InvalidInput", FALSE)
  \/ Crashes

SpecSkip == InitSkip /\ [][NextSkip]_vars

\* rows of a run that carry the sentinel "skipped"
SkippedRows(r) ==
  {c \in RowsOfRun(r) : review_comments[c].provider_comment_id = Skipped}

\* the row the loop of Post is at
PostTarget(i) == invocations[i].post_loaded[invocations[i].post_i]

\* ---------------------------------------------------------------- C20
C20_SkipAndContinue ==
  \A i \in Invs :
    PostInline(i, "InvalidInput", FALSE) =>
      /\ review_comments'[PostTarget(i)].provider_comment_id = Skipped
      /\ invocations'[i].post_pc = "loop"
      /\ invocations'[i].post_i = invocations[i].post_i + 1
      /\ invocations'[i].post_loaded = invocations[i].post_loaded
      /\ invocations'[i].j_post = invocations[i].j_post

C20_NeverSentAgain ==
  \A i \in Invs :
    (\E e \in ProviderErrors \cup {"ok"} : PostInline(i, e, FALSE)) =>
      review_comments[PostTarget(i)].provider_comment_id = NULL

\* Post has returned success: every row it loaded was either rejected and
\* carries "skipped", or was posted and carries the id of its discussion
C20_LoadedRowsHandled ==
  \A i \in Invs :
    (invocations[i].j_post = "ok" /\ invocations[i].post_pc = "idle") =>
      \A k \in 1..Len(invocations[i].post_loaded) :
        LET c == invocations[i].post_loaded[k]
        IN \/ /\ review_comments[c].provider_comment_id = Skipped
              /\ \A d \in 1..Len(provider_discussions) :
                   provider_discussions[d].comment # c
           \/ /\ review_comments[c].provider_comment_id > NULL
              /\ \E d \in 1..Len(provider_discussions) :
                   provider_discussions[d].comment = c

C20_RunCompleted ==
  \A i \in Invs :
    (Ended(i) /\ SkippedRows(invocations[i].runID) # {}) =>
      /\ invocations[i].outcome = "ok"
      /\ invocations[i].j_post = "ok"
      /\ review_runs[invocations[i].runID].status = "completed"

\* C20: when the provider rejects an inline discussion with InvalidInput, Post
\* sets that row's provider_comment_id to "skipped" and continues with the
\* remaining unposted rows, which are posted normally; Post returns success,
\* so the run ends completed; a row that carries "skipped" is never sent to
\* the provider again.
C20_InvalidInputSkipped ==
  /\ [](C20_LoadedRowsHandled /\ C20_RunCompleted)
  /\ [][C20_SkipAndContinue /\ C20_NeverSentAgain]_vars

C20_FirstRejectedSecondPosted ==
  \E i \in Invs :
    LET r == invocations[i].runID
    IN /\ Ended(i)
       /\ r # NULL
       /\ Cardinality(RowsOfRun(r)) = MaxComments
       /\ \E c \in SkippedRows(r) :
            \E d \in RowsOfRun(r) \ SkippedRows(r) :
              /\ c < d
              /\ review_comments[d].provider_comment_id > NULL
       /\ review_runs[r].status = "completed"


\* ---------------------------------------------------------------- C21
\* the first attempt of an execution: nothing is journaled yet
C21_StartStep ==
  \A i \in Invs :
    (RunStart(i) /\ ~invocations[i].j_start) =>
      LET prev == last_started_at
          recent == prev > 0 /\ now - prev < 3
      IN /\ invocations'[i].j_last = prev
         /\ last_started_at' = now
         /\ recent => /\ invocations'[i].pc = "sleeping"
                      /\ invocations'[i].j_wake = now + 3
         /\ ~recent => invocations'[i].pc = "select"

\* the run row is selected after RunStart directly, or after the sleep is over
C21_SelectStep ==
  \A i \in Invs :
    (invocations[i].pc # "select" /\ invocations'[i].pc = "select") =>
      \/ invocations[i].pc = "start" /\ invocations[i].j_sleep = "none"
      \/ /\ invocations[i].pc = "sleeping"
         /\ now >= invocations[i].j_wake

InitKinds ==
  /\ Init0
  /\ budget = [webhooks |-> 0, triggers |-> MaxTriggers, edits |-> 0,
               faults |-> PostFaults, crashes |-> 0]

NextKinds ==
  \/ TriggerSteps
  \/ OrchestratorSteps(0..MaxComments)
  \/ OrchestratorFailed
  \/ PosterSteps
  \/ \E i \in Ids, e \in ProviderErrors : RunFetchError(i, e)
  \/ \E i \in Ids, e \in ProviderErrors : PostNote(i, e)

SpecKinds == InitKinds /\ [][NextKinds]_vars

\* ---------------------------------------------------------------- C22
TerminalKinds ==
  {"NotFound", "Unauthorized", "Forbidden", "RateLimited", "InvalidInput"}

\* C22: each of the provider error kinds NotFound, Unauthorized, Forbidden,
\* RateLimited and InvalidInput, when the provider adapter returns it to the
\* Diff Fetcher or to the Comment Poster's summary post, is surfaced as
\* terminal: the failing step is not retried (the orchestrator receives the
\* error) and the orchestration marks the ReviewRun failed.
C22_FiveKindsTerminal ==
  /\ [](\A i \in Invs :
          (Ended(i) /\ (invocations[i].j_fetch.st = "err"
                        \/ invocations[i].j_post = "err"))
            => review_runs[invocations[i].runID].status = "failed")
  /\ [][\A i \in Invs, e \in TerminalKinds :
          /\ RunFetchError(i, e) => invocations'[i].j_fetch.st = "err"
          /\ PostNote(i, e) => invocations'[i].j_post = "err"]_vars


\* ---------------------------------------------------------------- C23
\* CreateReviewRun and SendPRReview of TriggerReview
C23_CreateAndSubmit ==
  TriggerReview("none") =>
    LET runID == Len(review_runs) + 1
        invocationID == Len(invocations) + 1
    IN /\ Len(review_runs') = runID
       /\ SubSeq(review_runs', 1, Len(review_runs)) = review_runs
       /\ review_runs'[runID].status = "pending"
       /\ Len(invocations') = invocationID
       /\ SubSeq(invocations', 1, Len(invocations)) = invocations
       /\ invocations'[invocationID].run_id = runID
       /\ invocations'[invocationID].force
       /\ runtime_log' =
            Append(runtime_log, [op |-> "submit", id |-> invocationID])
       /\ tr'.run = runID
       /\ tr'.inv = invocationID

\* UpdateReviewRunInvocationID of TriggerReview
C23_RecordInvocation ==
  TriggerReviewStore(FALSE) =>
    /\ review_runs' =
         [review_runs EXCEPT ![tr.run].restate_invocation_id = tr.inv]
    /\ invocations[tr.inv].run_id = tr.run
    /\ UNCHANGED <<invocations, runtime_log>>

\* C23: TriggerReview(repo_id, mr_number) for an existing repository creates
\* exactly one ReviewRun in status pending, submits exactly one orchestration
\* carrying that row's id and force = true, records the returned invocation
\* id on that same row and returns that run, whether or not the MR is a draft
\* (review_enabled is not read).
C23_TriggerReviewCreatesAndSubmits ==
  [][C23_CreateAndSubmit /\ C23_RecordInvocation]_vars

C23_DraftTriggeredOlderRow ==
  \E k \in Runs :
    /\ k < Len(review_runs)
    /\ mr.draft
    /\ tr.pc = "idle"
    /\ review_runs[k].restate_invocation_id # NULL
    /\ invocations[review_runs[k].restate_invocation_id].src = "trigger"
    /\ invocations[review_runs[k].restate_invocation_id].run_id = k


\* ------------------------------------------------ best-effort cancellation
\* two webhooks for a ready or draft MR; the active-invocation lookup or the
\* cancel request of a webhook may fail
InitCancel ==
  /\ Init0
  /\ budget = [webhooks |-> MaxWebhooks, triggers |-> 0, edits |-> 0,
               faults |-> 1, crashes |-> 0]

CancelFaults == {"lookup", "cancel"}

NextCancel ==
  \/ Tick
  \/ IngressSteps
  \/ \E d \in BOOLEAN, f \in CancelFaults : WebhookDispatch(d, f)
  \/ OrchestratorSteps({1})
  \/ OrchestratorFailed
  \/ PosterSteps
  \/ \E i \in Ids : RunWake(i)

SpecCancel == InitCancel /\ [][NextCancel]_vars

\* what GetActiveInvocationID returns to the request
ActiveFor(isDraftToReady) ==
  GetActiveInvocationID(IF isDraftToReady
                        THEN TransitionDraftToReview(review_runs)
                        ELSE review_runs)

Submitted ==
  /\ Len(invocations') = Len(invocations) + 1
  /\ invocations'[Len(invocations')].st = "queued"
  /\ runtime_log'[Len(runtime_log')] =
       [op |-> "submit", id |-> Len(invocations')]
  /\ wh'.pc = "create"
  /\ wh'.inv = Len(invocations')

\* ---------------------------------------------------------------- C24
\* C24: if the cancel request to the runtime fails, or the active-invocation
\* lookup fails, the webhook handler still submits the new orchestration and
\* returns 200; a 404 from the runtime on cancel (the invocation has already
\* completed) is treated as success.
C24_CancelIsBestEffort ==
  [][/\ \A d \in BOOLEAN, f \in CancelFaults :
          WebhookDispatch(d, f) => Submitted
     /\ \A d \in BOOLEAN :
          (/\ WebhookDispatch(d, "none")
           /\ ActiveFor(d) # NULL
           /\ invocations[ActiveFor(d)].st = "ended") => Submitted
     /\ WebhookCreateRun(FALSE) => wh'.code = 200]_vars

C24_DispatchedAfterFailedCancel ==
  /\ wh.pc = "idle"
  /\ wh.code = 200
  /\ budget.faults = 0
  /\ Len(invocations) = 2
  /\ Len(Submits) = 2
  /\ \E k \in 1..Len(runtime_log) : runtime_log[k].op = "cancel"
  /\ ~invocations[1].cancel
  /\ invocations[1].outcome # "cancelled"


\* --------------------------------------------------------- ListRepos
\* a ListRepos call against every provider of up to MaxPages pages; nextPage
\* starts at "1"
InitListing ==
  /\ now = 1
  /\ mr = [head |-> 1, draft |-> FALSE, lines |-> maxChangedLines]
  /\ review_runs = <<>>
  /\ review_comments = <<>>
  /\ invocations = <<>>
  /\ last_started_at = 0
  /\ provider_notes = <<>>
  /\ provider_discussions = <<>>
  /\ reviewer_calls = <<>>
  /\ runtime_log = <<>>
  /\ wh = [pc |-> "idle", inv |-> NULL, code |-> 0]
  /\ request = NoRequest
  /\ tr = [pc |-> "idle", run |-> NULL, inv |-> NULL]
  /\ budget = [webhooks |-> 0, triggers |-> 0, edits |-> 0, faults |-> 0,
               crashes |-> 0]
  /\ reply = NoReply
  /\ \E pages \in [PageNumbers -> PageAnswers] :
       listing = [st |-> "loop", pages |-> pages, nextPage |-> 1,
                  repos |-> <<>>, requested |-> <<>>, result |-> <<>>]

NextListing ==
  \/ ListReposPage
  \/ ListReposReturn

SpecListing == InitListing /\ [][NextListing]_vars

\* ---------------------------------------------------------------- C25
RECURSIVE PageChain(_, _, _)
\* the pages named by the next-page indicators, from page p on, at most n of
\* them, up to and including the first page that fails
PageChain(pages, p, n) ==
  IF p = 0 \/ n = 0 THEN <<>>
  ELSE IF pages[p].fails THEN <<p>>
  ELSE <<p>> \o PageChain(pages, pages[p].next, n - 1)

RECURSIVE Concatenated(_, _)
Concatenated(pages, chain) ==
  IF chain = <<>> THEN <<>>
  ELSE [k \in 1..pages[Head(chain)].projects |-> <<Head(chain), k>>]
         \o Concatenated(pages, Tail(chain))

\* C25: ListRepos fetches page 1 and then each page named by the provider's
\* next-page indicator until that indicator is empty, and returns the
\* repositories of all fetched pages concatenated in page order; if any page
\* request fails it returns that error and no partial list.
C25_ListReposAllPages ==
  LET chain == PageChain(listing.pages, 1, MaxRequests)
  IN /\ listing.st = "loop" =>
          listing.requested = SubSeq(chain, 1, Len(listing.requested))
     /\ listing.st = "done" =>
          /\ listing.requested = chain
          /\ \A k \in 1..Len(chain) : ~listing.pages[chain[k]].fails
          /\ listing.result = Concatenated(listing.pages, chain)
     /\ listing.st = "error" =>
          /\ listing.requested = chain
          /\ listing.pages[chain[Len(chain)]].fails
          /\ listing.result = <<>>

C25_ThreePagesInOrder ==
  /\ listing.st = "done"
  /\ listing.requested = <<1, 2, 3>>
  /\ listing.result = <<<<1, 1>>, <<1, 2>>, <<2, 1>>, <<3, 1>>, <<3, 2>>>>


\* ------------------------------------------------- FetchPRDetails alone
\* earlier rows of the (repo, MR): what the orchestrator and the handlers
\* leave behind (diff_hash is written before running; draft, skipped and
\* pending rows have none)
MaxRows == 3

EarlierRows ==
  {NewRun(st, NULL, NULL) : st \in {"pending", "draft", "skipped", "failed"}}
    \cup {[NewRun(st, NULL, NULL) EXCEPT !.diff_hash = h] :
            st \in {"running", "completed", "failed"}, h \in Heads}

Tables == UNION {[1..n -> EarlierRows] : n \in 0..MaxRows}

\* an orchestration, forced or not, that has selected its run row and is
\* about to call the Diff Fetcher, for every table of earlier rows; the
\* provider reports the MR's head commit, or none (an MR without commits has
\* "sha": null, decoded as "")
InitFetch ==
  /\ now = 1
  /\ mr \in [head : Heads \cup {NULL}, draft : BOOLEAN, lines : LineCounts]
  /\ \E t \in Tables : review_runs = Append(t, NewRun("pending", NULL, 1))
  /\ review_comments = <<>>
  /\ \E force \in BOOLEAN :
       invocations =
         <<[NewInvocation(NULL, force, "webhook", {}, NULL) EXCEPT
              !.st = "running", !.j_start = TRUE, !.pc = "fetch",
              !.runID = Len(review_runs)]>>
  /\ last_started_at = 1
  /\ provider_notes = <<>>
  /\ provider_discussions = <<>>
  /\ reviewer_calls = <<>>
  /\ runtime_log = <<[op |-> "submit", id |-> 1]>>
  /\ wh = [pc |-> "idle", inv |-> NULL, code |-> 0]
  /\ request = NoRequest
  /\ listing = NoListing
  /\ reply = NoReply
  /\ tr = [pc |-> "idle", run |-> NULL, inv |-> NULL]
  /\ budget = [webhooks |-> 0, triggers |-> 0, edits |-> 0, faults |-> 1,
               crashes |-> 0]

\* the fetch and what Run does with its answer up to the running update; one
\* call or statement may fail
NextFetch ==
  \E i \in Ids :
    \/ RunFetch(i, FALSE)
    \/ RunFetch(i, TRUE)
    \/ RunFetched(i, FALSE)
    \/ RunFetched(i, TRUE)
    \/ RunMarkRunning(i, FALSE)
    \/ RunMarkRunning(i, TRUE)
    \/ RunFail(i, FALSE)

SpecFetch == InitFetch /\ [][NextFetch]_vars

\* ---------------------------------------------------------------- C26
CompletedRows == {k \in Runs : review_runs[k].status = "completed"}

\* the most recent completed row that has a diff_hash
LatestHashed ==
  {k \in CompletedRows :
     /\ review_runs[k].diff_hash # NULL
     /\ \A j \in CompletedRows :
          review_runs[j].diff_hash # NULL => j <= k}

FetchAnswered ==
  /\ Len(invocations) = 1
  /\ invocations[1].pc = "fetched"
  /\ invocations[1].j_fetch.st = "ok"

C27_FetchReportsDraft ==
  \A i \in Invs :
    (/\ RunFetch(i, FALSE)
     /\ invocations[i].j_fetch.st = "none"
     /\ ~invocations[i].cancel
     /\ mr.draft)
      => invocations'[i].j_fetch.draft

\* an orchestration that was told draft = true has ended
C27_DraftRunEnds ==
  \A i \in Invs :
    (invocations[i].j_fetch.draft /\ invocations[i].pc # "fetched") =>
      /\ Ended(i)
      /\ invocations[i].outcome = "ok"
      /\ review_runs[invocations[i].runID].status = "draft"
      /\ ReviewerCallsOf(i) = <<>>
      /\ invocations[i].j_post = "none"
      /\ NotesOfRun(invocations[i].runID) = <<>>
      /\ DiscussionsOfRun(invocations[i].runID) = <<>>

\* C27: whenever the provider reports the MR as draft at fetch time, FetchMR
\* reports draft = true (in its skip response as well as in its normal
\* response) and the orchestration sets its run to status draft and ends
\* successfully without calling the Reviewer or Post and without posting
\* anything.
C27_DraftReportedAndHonoured ==
  /\ []C27_DraftRunEnds
  /\ [][C27_FetchReportsDraft]_vars


\* ---------------------------------------------------------------- C28
\* C28: every ReviewRun whose status is running, or that reached completed or
\* failed after having been running, has a non-NULL diff_hash: the
\* orchestrator persists diff_hash on the run row before it sets the status
\* to running.
C28_RunningHasDiffHash ==
  /\ [](\A k \in Runs :
          review_runs[k].status = "running" => review_runs[k].diff_hash # NULL)
  /\ [][\A k \in Runs :
          (/\ review_runs[k].status = "running"
           /\ review_runs'[k].status \in {"completed", "failed"})
            => review_runs'[k].diff_hash # NULL]_vars


\* ---------------------------------------------------------------- C29
\* the execution of invocation i returns a non-nil error in this step:
\* through fail(), or from the skip branch when its status update fails
C29_ReturnsError(i) ==
  \/ RunFail(i, FALSE)
  \/ RunFail(i, TRUE)
  \/ /\ RunFetched(i, TRUE)
     /\ invocations[i].j_fetch.st # "err"
     /\ ~invocations[i].j_fetch.draft
     /\ invocations[i].j_fetch.skip

\* C29: whenever an orchestrator execution that has already selected its run
\* row ends by returning an error, that run row's status is failed at the
\* moment the error is returned.
C29_ErrorLeavesRunFailed ==
  [][\A i \in Ids :
       (C29_ReturnsError(i) /\ invocations[i].runID # NULL)
         => review_runs'[invocations[i].runID].status = "failed"]_vars


\* ---------------------------------------------------------------- C30
\* a Post execution reaches the inline loop only through GetUnpostedComments,
\* and GetUnpostedComments only after PostComment has sent the summary note;
\* discussions are created in the loop only
C30_NoteBeforeInline ==
  \A i \in Invs :
    LET v == invocations[i]
        w == invocations'[i]
    IN /\ (/\ Len(provider_discussions') > Len(provider_discussions)
           /\ provider_discussions'[Len(provider_discussions')].inv = i)
            => v.post_pc = "loop"
       /\ (w.post_pc = "loop" /\ v.post_pc # "loop") => v.post_pc = "load"
       /\ (w.post_pc = "load" /\ v.post_pc # "load")
            => /\ v.post_pc = "note"
               /\ provider_notes' =
                    Append(provider_notes,
                           [run |-> v.post_run, inv |-> i,
                            body |-> SummaryOf(v)])

\* when Run issues the call of Post, every comment of the Reviewer's answer
\* is a row of the run
C30_InsertedBeforePost ==
  \A i \in Invs :
    (invocations[i].j_post = "none" /\ invocations'[i].j_post = "called")
      => \A c \in 1..invocations[i].j_review.n :
           \E r \in RowsOfRun(invocations[i].runID) :
             review_comments[r].comment = c

\* every discussion the provider got belongs to a stored row of its run
C30_DiscussionsHaveRows ==
  \A k \in 1..Len(provider_discussions) :
    provider_discussions[k].comment \in RowsOfRun(provider_discussions[k].run)

\* C30: within one Post invocation the summary note is sent to the provider
\* before any inline discussion, and within one orchestration all comments
\* returned by the Reviewer are inserted as ReviewComment rows before Post is
\* invoked, so no inline discussion is ever posted for a comment that is not
\* a persisted row.
C30_NoteThenPersistedInline ==
  /\ [][C30_NoteBeforeInline /\ C30_InsertedBeforePost]_vars
  /\ []C30_DiscussionsHaveRows

\* a Post execution that was retried after its note has sent the note again
\* and then the discussions of all the Reviewer's comments
C30_RetriedPostSentAll ==
  \E i \in Invs :
    /\ invocations[i].j_review.n = MaxComments
    /\ invocations[i].j_post = "ok"
    /\ Len(NotesOfRun(invocations[i].runID)) >= 2
    /\ Len(DiscussionsOfRun(invocations[i].runID)) >= MaxComments


\* ---------------------------------------------------------------- C31
\* invocation i has been cancelled while its debounce sleep was pending
CancelledInSleep(i) ==
  /\ invocations[i].j_sleep = "pending"
  /\ invocations[i].cancel

\* nothing in the tables or at the fetcher, reviewer or provider comes from i
NoEffectOf(i) ==
  /\ \A k \in Runs : review_runs[k].creator # i
  /\ invocations[i].runID = NULL
  /\ invocations[i].j_fetch.st = "none"
  /\ invocations[i].j_review.st = "none"
  /\ invocations[i].j_post = "none"
  /\ \A k \in 1..Len(reviewer_calls) : reviewer_calls[k].inv # i
  /\ \A k \in 1..Len(provider_notes) : provider_notes[k].inv # i
  /\ \A k \in 1..Len(provider_discussions) : provider_discussions[k].inv # i

\* the steps of an execution that sleeps: the start, which sets
\* last_started_at, and the return of the cancelled sleep
C31_SleeperSteps ==
  \A i \in Ids :
    /\ (RunStart(i) /\ invocations'[i].pc = "sleeping")
         => UNCHANGED <<mr, review_runs, review_comments, provVars,
                        runtime_log>>
    /\ RunSleepCancelled(i)
         => UNCHANGED <<mr, review_runs, review_comments, provVars,
                        runtime_log, last_started_at>>

\* C31: an execution that is cancelled during its debounce sleep creates no
\* ReviewRun row, changes no ReviewRun or ReviewComment row, and makes no
\* fetcher, reviewer or provider call; the only state it has changed is
\* last_started_at.
C31_CancelledSleeperLeavesNoTrace ==
  /\ [](\A i \in Invs : CancelledInSleep(i) => NoEffectOf(i))
  /\ [][C31_SleeperSteps]_vars

\* an execution cancelled in its sleep has returned, after it had set
\* last_started_at, while other executions left rows behind
C31_SleeperCancelledAndEnded ==
  \E i \in Invs :
    /\ CancelledInSleep(i)
    /\ Ended(i)
    /\ invocations[i].outcome = "cancelled"
    /\ invocations[i].j_start
    /\ Len(review_runs) > 0


\* ---------------------------------------------------------------- C32
\* C32: after the runtime has accepted a cancel for an orchestration
\* invocation, that invocation performs no further step: it makes no further
\* database write, status change, reviewer call or provider call.
C32_NoStepAfterCancel ==
  [][\A i \in Invs :
       (invocations[i].cancel /\ invocations'[i] # invocations[i])
         => UNCHANGED <<review_runs, review_comments, provVars>>]_vars


\* ---------------------------------------------------------------- C33
\* the step is a statement of PRReview.Run
C33_OrchestratorStep ==
  \E i \in Ids, f \in BOOLEAN :
    \/ RunStart(i)
    \/ RunSelect(i, f)
    \/ RunFetch(i, f)
    \/ RunFetched(i, f)
    \/ RunMarkRunning(i, f)
    \/ RunReviewCall(i)
    \/ \E n \in 0..MaxComments : RunReviewReturn(i, n, f)
    \/ \E k \in 0..MaxComments : RunInsertComments(i, f, k)
    \/ RunPostCall(i)
    \/ RunPostReturn(i)
    \/ RunMarkCompleted(i, f)
    \/ RunFail(i, f)

\* the step is a statement of PostReview.Post
C33_PosterStep ==
  \E i \in Ids, f \in BOOLEAN :
    \/ PostStoreSummary(i, f)
    \/ PostLoad(i)
    \/ PostReturn(i)
    \/ \E e \in ProviderErrors \cup {"ok"} : PostNote(i, e) \/ PostInline(i, e, f)

C33_CommentIdsChanged ==
  \E c \in Comments :
    review_comments'[c].provider_comment_id
      # review_comments[c].provider_comment_id

\* C33: ReviewRun rows are created and modified only by the orchestrator;
\* ReviewComment rows are inserted only by the orchestrator or the Comment
\* Poster; provider_comment_id is updated only by the Comment Poster.
C33_SingleWriters ==
  [][/\ review_runs' # review_runs => C33_OrchestratorStep
     /\ Len(review_comments') > Len(review_comments)
          => (C33_OrchestratorStep \/ C33_PosterStep)
     /\ C33_CommentIdsChanged => C33_PosterStep]_vars


\* ---------------------------------------------------------------- C34
\* the runtime has accepted a cancel for invocation j
WasCancelled(j) ==
  invocations[j].cancel \/ invocations[j].outcome = "cancelled"

\* C34: the orchestrator's debounce delays an execution only when a recent
\* invocation for the same key was cancelled; an execution that starts after
\* the previous invocation for the key ran to its end is not delayed.
C34_DelayOnlyAfterCancel ==
  [][\A i \in Invs :
       (RunStart(i) /\ ~invocations[i].j_start
          /\ invocations'[i].pc = "sleeping")
         => \E j \in Invs \ {i} : WasCancelled(j)]_vars


\* ---------------------------------------------------------------- C35
\* C35: TriggerReview cancels any in-flight orchestration for the same MR
\* before it submits the new one.
C35_TriggerCancelsInFlight ==
  [][(/\ Len(invocations') = Len(invocations) + 1
      /\ invocations'[Len(invocations')].src = "trigger")
       => \A j \in Invs :
            invocations'[j].st = "ended" \/ invocations'[j].cancel]_vars


\* ---------------------------------------------------------------- C36
\* C36: every inline discussion posted for a ReviewRun carries as its head
\* SHA the value recorded as that run's diff_hash, i.e. it is anchored to the
\* MR version the Reviewer saw, even if the MR receives a new push between
\* the fetch and the posting.
C36_DiscussionAnchoredToDiffHash ==
  \A k \in 1..Len(provider_discussions) :
    provider_discussions[k].head_sha
      = review_runs[provider_discussions[k].run].diff_hash


\* ---------------------------------------------------------------- C37
\* C37: every ReviewComment row belonging to a ReviewRun that is completed
\* and was not a dry run has a non-NULL provider_comment_id (a provider id
\* or "skipped").
C37_CompletedRunAllCommentsPosted ==
  \A c \in Comments :
    review_runs[review_comments[c].review_run_id].status = "completed"
      => review_comments[c].provider_comment_id # NULL


\* ---------------------------------------------------------------- C38
\* C38: if the submit to the runtime fails, TriggerReview returns an error
\* and leaves behind no ReviewRun row in status pending for that call.
C38_FailedSubmitLeavesNoPendingRun ==
  [][TriggerReview("send")
       => /\ tr'.pc = "idle"
          /\ Len(invocations') = Len(invocations)
          /\ \A k \in 1..Len(review_runs') :
               k > Len(review_runs) => review_runs'[k].status # "pending"]_vars


\* ------------------------------------------------------------- dry runs
\* one invocation of PRReview/Run submitted at the runtime's ingress, with
\* dry_run set or not, for a ready MR
InitDryRun ==
  /\ now = 1
  /\ mr \in [head : {1}, draft : {FALSE}, lines : LineCounts]
  /\ review_runs = <<>>
  /\ review_comments = <<>>
  /\ \E dry \in BOOLEAN :
       invocations =
         <<[NewInvocation(NULL, FALSE, "ingress", {}, NULL) EXCEPT
              !.dry_run = dry]>>
  /\ last_started_at = 0
  /\ provider_notes = <<>>
  /\ provider_discussions = <<>>
  /\ reviewer_calls = <<>>
  /\ runtime_log = <<[op |-> "submit", id |-> 1]>>
  /\ wh = [pc |-> "idle", inv |-> NULL, code |-> 0]
  /\ request = NoRequest
  /\ listing = NoListing
  /\ reply = NoReply
  /\ tr = [pc |-> "idle", run |-> NULL, inv |-> NULL]
  /\ budget = [webhooks |-> 0, triggers |-> 0, edits |-> 0,
               faults |-> PostFaults, crashes |-> 0]

\* the orchestration and Post, whose statements and provider calls may fail
NextDryRun ==
  \/ OrchestratorSteps(0..MaxComments)
  \/ OrchestratorFailed
  \/ PosterSteps
  \/ PosterFaults

SpecDryRun == InitDryRun /\ [][NextDryRun]_vars

\* ---------------------------------------------------------------- C39
\* the first statement of a dry-run Post succeeds: the summary is stored and
\* Post returns PostResponse{SummaryPosted: false}
C39_DryRunStep ==
  \A i \in Invs :
    (PostStoreSummary(i, FALSE) /\ invocations[i].dry_run)
      => /\ review_runs'[invocations[i].post_run].summary
              = SummaryOf(invocations[i])
         /\ invocations'[i].j_post = "ok"
         /\ invocations'[i].post_pc = "idle"
         /\ invocations'[i].post_resp = PostResponse(0, FALSE)
         /\ UNCHANGED <<provVars, review_comments>>

\* nothing at the provider comes from a dry run, and its comment rows keep
\* provider_comment_id NULL
C39_DryRunPostsNothing ==
  \A i \in Invs :
    invocations[i].dry_run
      => /\ \A k \in 1..Len(provider_notes) : provider_notes[k].inv # i
         /\ \A k \in 1..Len(provider_discussions) :
              provider_discussions[k].inv # i
         /\ invocations[i].post_pc \in {"idle", "start"}
         /\ invocations[i].runID # NULL
              => \A c \in RowsOfRun(invocations[i].runID) :
                   review_comments[c].provider_comment_id = NULL

\* C39: with dry_run=true, Post stores the summary on the ReviewRun row,
\* makes no provider call, leaves every ReviewComment's provider_comment_id
\* unchanged, and returns summary_posted=false with zero comments posted.
C39_DryRunStoresSummaryOnly ==
  /\ []C39_DryRunPostsNothing
  /\ [][C39_DryRunStep]_vars

\* a dry run of a review with comments has completed: summary stored, rows
\* inserted, nothing posted
C39_DryRunCompleted ==
  \E i \in Invs :
    /\ invocations[i].dry_run
    /\ Ended(i)
    /\ invocations[i].outcome = "ok"
    /\ invocations[i].j_review.n = MaxComments
    /\ invocations[i].post_resp = PostResponse(0, FALSE)
    /\ review_runs[invocations[i].runID].status = "completed"
    /\ review_runs[invocations[i].runID].summary = "review"
    /\ Cardinality(RowsOfRun(invocations[i].runID)) = MaxComments
    /\ provider_notes = <<>>


\* ------------------------------------------------------ reported status
\* rows in every status: running and completed rows carry a diff_hash
StoredRows ==
  {[NewRun(st, NULL, NULL) EXCEPT
      !.diff_hash = IF st \in {"running", "completed"} THEN 1 ELSE NULL] :
     st \in Statuses}

\* one GetReviewRun call against every table of one to MaxRows rows
InitStatus ==
  /\ now = 1
  /\ mr = [head |-> 1, draft |-> FALSE, lines |-> maxChangedLines]
  /\ review_runs \in UNION {[1..n -> StoredRows] : n \in 1..MaxRows}
  /\ review_comments = <<>>
  /\ invocations = <<>>
  /\ last_started_at = 0
  /\ provider_notes = <<>>
  /\ provider_discussions = <<>>
  /\ reviewer_calls = <<>>
  /\ runtime_log = <<>>
  /\ wh = [pc |-> "idle", inv |-> NULL, code |-> 0]
  /\ request = NoRequest
  /\ listing = NoListing
  /\ reply = NoReply
  /\ tr = [pc |-> "idle", run |-> NULL, inv |-> NULL]
  /\ budget = [webhooks |-> 0, triggers |-> 0, edits |-> 0, faults |-> 0,
               crashes |-> 0]

NextStatus == \E id \in 0..(MaxRows + 1) : GetReviewRun(id)

SpecStatus == InitStatus /\ [][NextStatus]_vars

\* ---------------------------------------------------------------- C40
\* C40: GetReviewRun reports the stored status of a run faithfully: each of
\* the six status values draft, pending, running, completed, failed and
\* skipped is reported as a distinct value, and a failed run is reported as
\* failed.
C40_StatusReportedFaithfully ==
  reply.code = "ok" =>
    /\ \A s \in Statuses :
         stringToReviewStatus(s) = reply.status
           => s = review_runs[reply.id].status
    /\ review_runs[reply.id].status = "failed"
         => reply.status = "REVIEW_STATUS_FAILED"

====
